---- MODULE Spec2Model ----
(***************************************************************************)
(* Model of the conversation engine of the dental-clinic assistant         *)
(* (src/chatbot_service.py): the per-user session store, the global        *)
(* commands, the state dispatch of get_response and every state handler,   *)
(* together with the validators and the intent classifier they call.       *)
(* The Clinic Gateway (appointment and doctor lookups and mutations) is    *)
(* an external collaborator: its operations are modelled from section 6    *)
(* of the specification, with nondeterministic success of the mutations.   *)
(***************************************************************************)
EXTENDS Integers, Sequences, FiniteSets, TLC

VARIABLES sessions, appts, now, last, step, mutations

vars == <<sessions, appts, now, last, step, mutations>>

(***************************************************************************)
(* Strings.  Inputs are character strings; the operators below compute     *)
(* what the Python string methods compute on them.                         *)
(***************************************************************************)
Char(s, i) == SubSeq(s, i, i)

Digits == {"0", "1", "2", "3", "4", "5", "6", "7", "8", "9"}

DigitVal(c) ==
  CASE c = "0" -> 0 [] c = "1" -> 1 [] c = "2" -> 2 [] c = "3" -> 3
    [] c = "4" -> 4 [] c = "5" -> 5 [] c = "6" -> 6 [] c = "7" -> 7
    [] c = "8" -> 8 [] c = "9" -> 9 [] OTHER -> 0

LowerChar(c) ==
  CASE c = "A" -> "a" [] c = "B" -> "b" [] c = "C" -> "c" [] c = "D" -> "d"
    [] c = "E" -> "e" [] c = "F" -> "f" [] c = "G" -> "g" [] c = "H" -> "h"
    [] c = "I" -> "i" [] c = "J" -> "j" [] c = "K" -> "k" [] c = "L" -> "l"
    [] c = "M" -> "m" [] c = "N" -> "n" [] c = "O" -> "o" [] c = "P" -> "p"
    [] c = "Q" -> "q" [] c = "R" -> "r" [] c = "S" -> "s" [] c = "T" -> "t"
    [] c = "U" -> "u" [] c = "V" -> "v" [] c = "W" -> "w" [] c = "X" -> "x"
    [] c = "Y" -> "y" [] c = "Z" -> "z" [] OTHER -> c

\* str.lower()
Lower(s) ==
  LET F[i \in 0..Len(s)] ==
        IF i = 0 THEN "" ELSE F[i - 1] \o LowerChar(Char(s, i))
  IN  F[Len(s)]

\* the characters str.strip() removes and the regular expression's \s matches
Whitespace == {" ", "\t", "\n", "\r"}

\* str.strip(): the leading and trailing whitespace removed
Strip(s) ==
  LET nonblank == {i \in 1..Len(s) : Char(s, i) \notin Whitespace}
      lo == CHOOSE i \in nonblank : \A j \in nonblank : i <= j
      hi == CHOOSE i \in nonblank : \A j \in nonblank : i >= j
  IN  IF nonblank = {} THEN "" ELSE SubSeq(s, lo, hi)

\* Python's  k in s
Contains(s, k) ==
  \E i \in 1..(Len(s) - Len(k) + 1) : SubSeq(s, i, i + Len(k) - 1) = k

AnyIn(keywords, s) == \E k \in keywords : Contains(s, k)

AllDigits(s) == Len(s) > 0 /\ \A i \in 1..Len(s) : Char(s, i) \in Digits

\* str.isdigit()
IsDigitStr(s) == AllDigits(s)

DecimalValue(s) ==
  LET F[i \in 0..Len(s)] ==
        IF i = 0 THEN 0 ELSE 10 * F[i - 1] + DigitVal(Char(s, i))
  IN  F[Len(s)]

\* int(s): blanks around, an optional sign, decimal digits; anything else
\* raises ValueError
IntBody(s) ==
  LET t == Strip(s)
  IN  IF Len(t) > 0 /\ Char(t, 1) \in {"+", "-"} THEN SubSeq(t, 2, Len(t)) ELSE t

IntParses(s) == AllDigits(IntBody(s))

IntValue(s) ==
  LET t == Strip(s)
  IN  IF Len(t) > 0 /\ Char(t, 1) = "-"
      THEN 0 - DecimalValue(IntBody(s))
      ELSE DecimalValue(IntBody(s))

\* the pieces of s between occurrences of the one-character separator
SplitStep(parts, c, sep) ==
  IF c = sep
  THEN Append(parts, "")
  ELSE [parts EXCEPT ![Len(parts)] = @ \o c]

SplitOn(s, sep) ==
  LET F[i \in 0..Len(s)] ==
        IF i = 0 THEN <<"">> ELSE SplitStep(F[i - 1], Char(s, i), sep)
  IN  F[Len(s)]

(***************************************************************************)
(* The calendar: the proleptic Gregorian ordinal of a date, as datetime    *)
(* computes it.  The clock of a run is read at TodayY-TodayM-TodayD.       *)
(***************************************************************************)
TodayY == 2025
TodayM == 6
TodayD == 15

IsLeap(y) == (y % 4 = 0) /\ ((y % 100 # 0) \/ (y % 400 = 0))

DaysInMonth(y, m) ==
  IF m = 2 THEN (IF IsLeap(y) THEN 29 ELSE 28)
  ELSE IF m \in {4, 6, 9, 11} THEN 30 ELSE 31

DaysBeforeMonth(y, m) ==
  LET F[k \in 1..12] == IF k = 1 THEN 0 ELSE F[k - 1] + DaysInMonth(y, k - 1)
  IN  F[m]

Ordinal(y, m, d) ==
  365 * (y - 1) + ((y - 1) \div 4) - ((y - 1) \div 100) + ((y - 1) \div 400)
    + DaysBeforeMonth(y, m) + d

TodayOrdinal == Ordinal(TodayY, TodayM, TodayD)

\* the window of _is_valid_date: timedelta(days=90)
MaxDaysAhead == 90

(***************************************************************************)
(* datetime.strptime(text, "%Y-%m-%d"): four digits, one or two digits of  *)
(* a month 1..12, one or two digits of a day 1..31 that exists in the      *)
(* month; the whole text must be consumed.                                 *)
(***************************************************************************)
DateParts(t) == SplitOn(t, "-")

MonthField(p) ==
  /\ AllDigits(p) /\ Len(p) \in {1, 2}
  /\ DecimalValue(p) \in 1..12

DayField(p) ==
  \/ /\ AllDigits(p) /\ Len(p) \in {1, 2}
     /\ DecimalValue(p) \in 1..31
  \/ /\ Len(p) = 2 /\ Char(p, 1) = " "
     /\ Char(p, 2) \in (Digits \ {"0"})

DateParses(t) ==
  LET p == DateParts(t)
  IN  /\ Len(p) = 3
      /\ AllDigits(p[1]) /\ Len(p[1]) = 4 /\ DecimalValue(p[1]) >= 1
      /\ MonthField(p[2])
      /\ DayField(p[3])
      /\ DecimalValue(Strip(p[3])) <= DaysInMonth(DecimalValue(p[1]), DecimalValue(p[2]))

DateOrdinal(t) ==
  LET p == DateParts(t)
  IN  Ordinal(DecimalValue(p[1]), DecimalValue(p[2]), DecimalValue(Strip(p[3])))

\* a validator whose window ends one day early
is_valid_date_M(date_str) ==
  LET t == Strip(date_str)
  IN  IF ~DateParses(t) THEN <<FALSE, "bad_format">>
      ELSE IF DateOrdinal(t) < TodayOrdinal THEN <<FALSE, "past">>
      ELSE IF DateOrdinal(t) >= TodayOrdinal + MaxDaysAhead THEN <<FALSE, "too_far">>
      ELSE <<TRUE, "none">>

\* _is_valid_date: <<ok, reason>>
is_valid_date(date_str) ==
  LET t == Strip(date_str)
  IN  IF ~DateParses(t) THEN <<FALSE, "bad_format">>
      ELSE IF DateOrdinal(t) < TodayOrdinal THEN <<FALSE, "past">>
      ELSE IF DateOrdinal(t) > TodayOrdinal + MaxDaysAhead THEN <<FALSE, "too_far">>
      ELSE <<TRUE, "none">>

(***************************************************************************)
(* datetime.strptime(text, "%H:%M"): one or two digits of an hour 0..23,   *)
(* one or two digits of a minute 0..59.                                    *)
(***************************************************************************)
TimeParts(t) == SplitOn(t, ":")

TimeParses(t) ==
  LET p == TimeParts(t)
  IN  /\ Len(p) = 2
      /\ AllDigits(p[1]) /\ Len(p[1]) \in {1, 2} /\ DecimalValue(p[1]) \in 0..23
      /\ AllDigits(p[2]) /\ Len(p[2]) \in {1, 2} /\ DecimalValue(p[2]) \in 0..59

OpeningHour == 8
ClosingHour == 20

\* a validator that lets the closing hour through
is_valid_time_M(time_str) ==
  LET t == Strip(time_str)
      p == TimeParts(t)
  IN  IF ~TimeParses(t) THEN <<FALSE, "bad_format">>
      ELSE IF DecimalValue(p[1]) < OpeningHour \/ DecimalValue(p[1]) > ClosingHour
           THEN <<FALSE, "closed">>
      ELSE IF DecimalValue(p[2]) \notin {0, 30} THEN <<FALSE, "granularity">>
      ELSE <<TRUE, "none">>

\* _is_valid_time: <<ok, reason>>
is_valid_time(time_str) ==
  LET t == Strip(time_str)
      p == TimeParts(t)
  IN  IF ~TimeParses(t) THEN <<FALSE, "bad_format">>
      ELSE IF DecimalValue(p[1]) < OpeningHour \/ DecimalValue(p[1]) >= ClosingHour
           THEN <<FALSE, "closed">>
      ELSE IF DecimalValue(p[2]) \notin {0, 30} THEN <<FALSE, "granularity">>
      ELSE <<TRUE, "none">>

PhoneChars == Digits \cup Whitespace \cup {"-", "+", "(", ")"}
PhoneMinLen == 7
PhoneMaxLen == 20

\* _is_valid_phone: ^[\d\s\-\+\(\)]{7,20}$ on the stripped text
is_valid_phone(phone) ==
  LET t == Strip(phone)
  IN  /\ Len(t) >= PhoneMinLen /\ Len(t) <= PhoneMaxLen
      /\ \A i \in 1..Len(t) : Char(t, i) \in PhoneChars

(***************************************************************************)
(* The intent classifier.                                                  *)
(***************************************************************************)
book_keywords == {"book", "schedule", "appointment", "make", "new", "create", "set up"}
cancel_keywords == {"cancel", "delete", "remove", "stop"}
reschedule_keywords == {"reschedule", "change", "modify", "update", "move"}
view_keywords == {"view", "see", "show", "list", "check", "my", "upcoming", "appointments"}

\* a classifier that looks for reschedule keywords first
detect_intent_M(user_input) ==
  LET input_lower == Strip(Lower(user_input))
  IN  IF AnyIn(reschedule_keywords, input_lower) THEN "reschedule"
      ELSE IF AnyIn(cancel_keywords, input_lower) THEN "cancel"
      ELSE IF AnyIn(view_keywords, input_lower) THEN "view"
      ELSE IF AnyIn(book_keywords, input_lower) THEN "book"
      ELSE "unknown"

detect_intent(user_input) ==
  LET input_lower == Strip(Lower(user_input))
  IN  IF AnyIn(cancel_keywords, input_lower) THEN "cancel"
      ELSE IF AnyIn(reschedule_keywords, input_lower) THEN "reschedule"
      ELSE IF AnyIn(view_keywords, input_lower) THEN "view"
      ELSE IF AnyIn(book_keywords, input_lower) THEN "book"
      ELSE "unknown"


(***************************************************************************)
(* ConversationState, ServiceType and AppointmentStatus.                   *)
(***************************************************************************)
START == "start"
GREETING == "greeting"
PROBLEM_ASSESSMENT == "problem_assessment"
SERVICE_SELECTION == "service_selection"
DATE_SELECTION == "date_selection"
TIME_SELECTION == "time_selection"
PHONE_COLLECTION == "phone_collection"
DOCTOR_SELECTION == "doctor_selection"
CONFIRMATION == "confirmation"
BOOKING_COMPLETE == "booking_complete"
INTENT_DETECTION == "intent_detection"
CANCEL_START == "cancel_start"
CANCEL_CONFIRMATION == "cancel_confirmation"
RESCHEDULE_START == "reschedule_start"
RESCHEDULE_APPOINTMENT_SELECTION == "reschedule_appointment_selection"
RESCHEDULE_DATE_SELECTION == "reschedule_date_selection"
RESCHEDULE_TIME_SELECTION == "reschedule_time_selection"
RESCHEDULE_CONFIRMATION == "reschedule_confirmation"
VIEW_START == "view_start"
VIEW_RESULTS == "view_results"

ConversationState ==
  {START, GREETING, PROBLEM_ASSESSMENT, SERVICE_SELECTION, DATE_SELECTION,
   TIME_SELECTION, PHONE_COLLECTION, DOCTOR_SELECTION, CONFIRMATION,
   BOOKING_COMPLETE, INTENT_DETECTION, CANCEL_START, CANCEL_CONFIRMATION,
   RESCHEDULE_START, RESCHEDULE_APPOINTMENT_SELECTION,
   RESCHEDULE_DATE_SELECTION, RESCHEDULE_TIME_SELECTION,
   RESCHEDULE_CONFIRMATION, VIEW_START, VIEW_RESULTS}

\* the values of ServiceType, in declaration order
available_services ==
  <<"Consultation", "Cleaning", "Filling", "Root Canal", "Extraction",
    "Orthodontics", "Whitening", "Implant", "Crown", "Emergency", "Other">>

SCHEDULED == "Scheduled"
CONFIRMED == "Confirmed"
COMPLETED == "Completed"
CANCELLED == "Cancelled"

\* Python's None, and the value standing for a key the draft does not hold
None == "<None>"
Absent == "<absent>"
NoAppointment == 0

(***************************************************************************)
(* Sessions.  The draft is session["data"]; the keys that the cancel and   *)
(* reschedule flows add later (available_appointments,                     *)
(* selected_appointment, new_date, new_time) are absent at creation.  An   *)
(* absent available_appointments is the empty list, which is what          *)
(* .get("available_appointments", []) reads and which no handler stores.   *)
(***************************************************************************)
\* a session that is born with a default doctor already chosen
create_session_M(user_name, clock) ==
  [state |-> START,
   user_name |-> user_name,
   data |-> [patient_name |-> user_name,
             problem |-> None,
             service_type |-> None,
             date |-> None,
             time |-> None,
             doctor_name |-> "Any",
             phone |-> None,
             notes |-> None,
             available_appointments |-> <<>>,
             selected_appointment |-> NoAppointment,
             new_date |-> Absent,
             new_time |-> Absent],
   validation_errors |-> <<>>,
   attempt_count |-> 0,
   created_at |-> clock]

create_session(user_name, clock) ==
  [state |-> START,
   user_name |-> user_name,
   data |-> [patient_name |-> user_name,
             problem |-> None,
             service_type |-> None,
             date |-> None,
             time |-> None,
             doctor_name |-> None,
             phone |-> None,
             notes |-> None,
             available_appointments |-> <<>>,
             selected_appointment |-> NoAppointment,
             new_date |-> Absent,
             new_time |-> Absent],
   validation_errors |-> <<>>,
   attempt_count |-> 0,
   created_at |-> clock]

\* the sessions of a store, as a function from the user names it holds
HasSession(store, user_name) == user_name \in DOMAIN store

get_or_create_session(store, user_name, clock) ==
  IF HasSession(store, user_name)
  THEN store
  ELSE [u \in DOMAIN store \cup {user_name} |->
          IF u = user_name THEN create_session(user_name, clock) ELSE store[u]]

\* _cleanup_old_sessions: the clock counts hours
max_age_hours == 1

\* a sweep that also removes the sessions of age exactly max_age_hours
Expired_M(session, clock) == clock - session.created_at >= max_age_hours

Expired(session, clock) == clock - session.created_at > max_age_hours

cleanup_old_sessions(store, clock) ==
  [u \in {v \in DOMAIN store : ~Expired(store[v], clock)} |-> store[u]]

\* "every 10 interactions": the test is on the number of sessions held
SweepModulus == 10

SweepDue(store) == Cardinality(DOMAIN store) % SweepModulus = 0

(***************************************************************************)
(* The Clinic Gateway.  appts maps an appointment id to its record; ids    *)
(* are in the gateway's listing order.                                     *)
(***************************************************************************)
\* findAppointmentsByPatient(key): the ids whose patient name or phone is key
get_patient_appointments(store, key) ==
  LET F[i \in 0..Len(store)] ==
        IF i = 0 THEN <<>>
        ELSE IF store[i].patient_name = key \/ store[i].patient_phone = key
             THEN Append(F[i - 1], i)
             ELSE F[i - 1]
  IN  F[Len(store)]

\* listDoctors(): the directory the gateway serves
Doctors == <<"John Smith">>

get_all_doctors == Doctors

\* findDoctorByName(name): the doctor's full name, or None
get_doctor_by_name(name) ==
  IF \E i \in 1..Len(Doctors) : Lower(Doctors[i]) = Lower(name)
  THEN Doctors[CHOOSE i \in 1..Len(Doctors) : Lower(Doctors[i]) = Lower(name)]
  ELSE None

\* Appointment.cancel
AppointmentCancel(apt) ==
  IF apt.status \notin {COMPLETED, CANCELLED}
  THEN [apt EXCEPT !.status = CANCELLED]
  ELSE apt

\* the effect on the gateway's records of one call that reported its result
ApplyCall(store, call) ==
  IF call.op = "cancel" /\ call.result
  THEN [store EXCEPT ![call.args[1]] = AppointmentCancel(@)]
  ELSE IF call.op = "reschedule" /\ call.result
  THEN [store EXCEPT ![call.args[1]].date = call.args[2],
                     ![call.args[1]].time = call.args[3]]
  ELSE IF call.op = "book_appointment_validated" /\ call.result
  THEN Append(store, [patient_name |-> call.args[1], patient_phone |-> call.args[2],
                      status |-> SCHEDULED, date |-> call.args[4],
                      time |-> call.args[5]])
  ELSE store

ApplyCalls(store, calls) ==
  LET F[i \in 0..Len(calls)] ==
        IF i = 0 THEN store ELSE ApplyCall(F[i - 1], calls[i])
  IN  F[Len(calls)]

\* a filter that lets completed appointments through
Cancellable_M(apt) == apt.status \in {SCHEDULED, CONFIRMED, COMPLETED}

Cancellable(apt) == apt.status \in {SCHEDULED, CONFIRMED}

FilterMutable(store, ids) == SelectSeq(ids, LAMBDA i : Cancellable(store[i]))

\* Appointment.get_datetime, in minutes
get_datetime(apt) ==
  LET p == TimeParts(apt.time)
  IN  DateOrdinal(apt.date) * 1440 + DecimalValue(p[1]) * 60 + DecimalValue(p[2])

\* list.sort(key=get_datetime): stable, ascending
Insert(store, sorted, i) ==
  LET before == SelectSeq(sorted, LAMBDA j : get_datetime(store[j]) <= get_datetime(store[i]))
      after == SelectSeq(sorted, LAMBDA j : get_datetime(store[j]) > get_datetime(store[i]))
  IN  before \o <<i>> \o after

\* a view that renders the appointments as the gateway returned them
SortByDatetime_M(store, ids) == ids

SortByDatetime(store, ids) ==
  LET F[k \in 0..Len(ids)] ==
        IF k = 0 THEN <<>> ELSE Insert(store, F[k - 1], ids[k])
  IN  F[Len(ids)]


(***************************************************************************)
(* A handler returns the session as it leaves it, the reply, the gateway   *)
(* calls it made (with the result each reported), the exception it raised  *)
(* (if any) and the draft fields it read while they were still unset.      *)
(***************************************************************************)
Reply(kind, args) == [kind |-> kind, args |-> args]

Result(session, kind, args) ==
  [sess |-> session, reply |-> Reply(kind, args), calls |-> <<>>,
   raised |-> "none", read_unset |-> {}]

Call(op, args, result) == [op |-> op, args |-> args, result |-> result]

Raise(session, exception) ==
  [sess |-> session, reply |-> Reply("exception", <<exception>>),
   calls |-> <<>>, raised |-> exception, read_unset |-> {}]

UnsetAmong(data, fields) ==
  {f \in fields : data[f] = None \/ data[f] = Absent}

AffirmativeAnswers == {"yes", "y", "ok", "correct", "sure"}
BookingNegativeAnswers == {"no", "n", "cancel", "edit"}
RescheduleNegativeAnswers == {"no", "n", "cancel"}

\* ---------------------------------------------------------------- booking
handle_greeting(session) ==
  Result([session EXCEPT !.state = GREETING], "greeting", <<session.user_name>>)

ProblemTone(user_input) ==
  LET problem_lower == Lower(user_input)
  IN  IF AnyIn({"emergency", "urgent", "severe", "pain"}, problem_lower) THEN "urgent"
      ELSE IF AnyIn({"clean", "routine", "checkup"}, problem_lower) THEN "routine"
      ELSE IF AnyIn({"cosmetic", "whiten", "brighten"}, problem_lower) THEN "cosmetic"
      ELSE "info"

handle_problem_assessment(session, user_input) ==
  Result([session EXCEPT !.data.problem = user_input,
                         !.state = SERVICE_SELECTION],
         "service_menu",
         <<ProblemTone(user_input), SubSeq(available_services, 1, 6),
           Len(available_services)>>)

ServiceByNumber(user_input) ==
  IF IntParses(user_input)
     /\ 0 <= IntValue(user_input) - 1
     /\ IntValue(user_input) - 1 < Len(available_services)
  THEN available_services[IntValue(user_input)]
  ELSE None

ServiceByName(user_input) ==
  LET user_input_lower == Strip(Lower(user_input))
      hits == {i \in 1..Len(available_services) :
                 user_input_lower = ""
                 \/ Contains(Lower(available_services[i]), user_input_lower)}
  IN  IF hits = {} THEN None
      ELSE available_services[CHOOSE i \in hits : \A j \in hits : i <= j]

handle_service_selection(session, user_input) ==
  LET by_number == ServiceByNumber(user_input)
      selected_service ==
        IF by_number # None THEN by_number ELSE ServiceByName(user_input)
  IN  IF selected_service = None
      THEN Result(session, "service_error", <<user_input, available_services>>)
      ELSE Result([session EXCEPT !.data.service_type = selected_service,
                                  !.state = DATE_SELECTION],
                  "date_prompt", <<selected_service>>)

handle_date_selection(session, user_input) ==
  LET v == is_valid_date(user_input)
  IN  IF ~v[1]
      THEN Result(session, "date_error", <<v[2], IsDigitStr(Strip(user_input))>>)
      ELSE Result([session EXCEPT !.data.date = Strip(user_input),
                                  !.state = TIME_SELECTION],
                  "time_prompt", <<Strip(user_input)>>)

handle_time_selection(session, user_input) ==
  LET v == is_valid_time(user_input)
  IN  IF ~v[1]
      THEN Result(session, "time_error", <<v[2]>>)
      ELSE Result([session EXCEPT !.data.time = Strip(user_input),
                                  !.state = PHONE_COLLECTION],
                  "phone_prompt", <<Strip(user_input)>>)

handle_phone_collection(session, user_input) ==
  IF ~is_valid_phone(user_input)
  THEN Result(session, "phone_error", <<>>)
  ELSE [Result([session EXCEPT !.data.phone = Strip(user_input),
                               !.state = DOCTOR_SELECTION],
               "doctor_prompt",
               <<Strip(user_input),
                 SubSeq(get_all_doctors, 1, IF Len(get_all_doctors) < 5
                                            THEN Len(get_all_doctors) ELSE 5)>>)
        EXCEPT !.calls = <<Call("get_all_doctors", <<>>, TRUE)>>]

ReviewFields == {"patient_name", "phone", "service_type", "date", "time", "doctor_name"}

handle_doctor_selection(session, user_input) ==
  LET doctor_input == Lower(Strip(user_input))
      doctor == get_doctor_by_name(user_input)
      lookup == <<Call("get_doctor_by_name", <<user_input>>, doctor # None)>>
      chosen == IF doctor_input = "any" THEN "Any" ELSE doctor
      after == [session EXCEPT !.data.doctor_name = chosen, !.state = CONFIRMATION]
      data == after.data
  IN  IF doctor_input # "any" /\ doctor = None
      THEN [Result(session, "doctor_error", <<user_input>>) EXCEPT !.calls = lookup]
      ELSE [Result(after, "review",
                   <<data.patient_name, data.phone, data.service_type,
                     data.date, data.time, data.doctor_name>>)
            EXCEPT !.calls = IF doctor_input = "any" THEN <<>> ELSE lookup,
                   !.read_unset = UnsetAmong(data, ReviewFields)]

(***************************************************************************)
(* Appointment(...): the model's field constraints and validators.  A      *)
(* None where a str or a ServiceType is required, a length out of range,   *)
(* or a validator's ValueError all raise on construction.                  *)
(***************************************************************************)
LenBetween(v, lo, hi) == v # None /\ Len(v) >= lo /\ Len(v) <= hi

ServiceTypes == {available_services[i] : i \in 1..Len(available_services)}

ModelValidateDate(v) ==
  v # None /\ DateParses(v) /\ DateOrdinal(v) >= TodayOrdinal

ModelValidateTime(v) ==
  /\ v # None /\ TimeParses(v)
  /\ DecimalValue(TimeParts(v)[1]) >= OpeningHour
  /\ DecimalValue(TimeParts(v)[1]) < ClosingHour

IssueNote(prefix, problem) ==
  prefix \o (IF problem = None THEN "None" ELSE problem)

AppointmentConstructs(data) ==
  /\ LenBetween(data.patient_name, 1, 100)
  /\ LenBetween(data.phone, 7, 20)
  /\ LenBetween(data.doctor_name, 1, 100)
  /\ ModelValidateDate(data.date)
  /\ ModelValidateTime(data.time)
  /\ data.service_type \in ServiceTypes
  /\ Len(IssueNote("Issue: ", data.problem)) <= 500

BookingFields ==
  {"patient_name", "phone", "doctor_name", "date", "time", "service_type", "problem"}

\* a commit that marks the booking complete before the gateway has answered
book_appointment_M(session, gateway_ok) ==
  LET data == session.data
      request == <<data.patient_name, data.phone, data.doctor_name, data.date,
                   data.time, data.service_type,
                   IssueNote("Patient reported: ", data.problem)>>
      create == <<Call("book_appointment_validated", request, gateway_ok)>>
      unset == UnsetAmong(data, BookingFields)
      marked == [session EXCEPT !.state = BOOKING_COMPLETE]
  IN  IF ~AppointmentConstructs(data)
      THEN [Result(session, "booking_exception", <<>>) EXCEPT !.read_unset = unset]
      ELSE IF gateway_ok
      THEN [Result(marked, "booking_success",
                   <<data.date, data.time, data.doctor_name, data.service_type,
                     data.phone>>)
            EXCEPT !.calls = create, !.read_unset = unset]
      ELSE [Result(marked, "booking_failed", <<>>)
            EXCEPT !.calls = create, !.read_unset = unset]

\* a booking step without the try/except around the construction
book_appointment_Unguarded(session, gateway_ok) ==
  LET data == session.data
      request == <<data.patient_name, data.phone, data.doctor_name, data.date,
                   data.time, data.service_type,
                   IssueNote("Patient reported: ", data.problem)>>
      create == <<Call("book_appointment_validated", request, gateway_ok)>>
      unset == UnsetAmong(data, BookingFields)
  IN  IF ~AppointmentConstructs(data)
      THEN [Raise(session, "ValidationError") EXCEPT !.read_unset = unset]
      ELSE IF gateway_ok
      THEN [Result([session EXCEPT !.state = BOOKING_COMPLETE], "booking_success",
                   <<data.date, data.time, data.doctor_name, data.service_type,
                     data.phone>>)
            EXCEPT !.calls = create, !.read_unset = unset]
      ELSE [Result(session, "booking_failed", <<>>)
            EXCEPT !.calls = create, !.read_unset = unset]

\* gateway_ok: what createAppointment reports if it is called
book_appointment(session, gateway_ok) ==
  LET data == session.data
      request == <<data.patient_name, data.phone, data.doctor_name, data.date,
                   data.time, data.service_type,
                   IssueNote("Patient reported: ", data.problem)>>
      create == <<Call("book_appointment_validated", request, gateway_ok)>>
      unset == UnsetAmong(data, BookingFields)
  IN  IF ~AppointmentConstructs(data)
      THEN [Result(session, "booking_exception", <<>>) EXCEPT !.read_unset = unset]
      ELSE IF gateway_ok
      THEN [Result([session EXCEPT !.state = BOOKING_COMPLETE], "booking_success",
                   <<data.date, data.time, data.doctor_name, data.service_type,
                     data.phone>>)
            EXCEPT !.calls = create, !.read_unset = unset]
      ELSE [Result(session, "booking_failed", <<>>)
            EXCEPT !.calls = create, !.read_unset = unset]

handle_confirmation(session, user_input, gateway_ok) ==
  LET response_lower == Lower(Strip(user_input))
  IN  IF response_lower \in AffirmativeAnswers
      THEN book_appointment(session, gateway_ok)
      ELSE IF response_lower \in BookingNegativeAnswers
      THEN Result([session EXCEPT !.state = START], "booking_cancelled", <<>>)
      ELSE Result(session, "yes_no_error", <<>>)

\* replaces the stored session; the reply greets without entering GREETING
handle_followup(session, user_input, clock) ==
  IF Contains(Lower(user_input), "restart")
  THEN Result(create_session(session.user_name, clock), "restart_greeting",
              <<session.user_name>>)
  ELSE IF AnyIn({"thank", "thanks", "bye", "goodbye"}, Lower(user_input))
  THEN Result(session, "end", <<>>)
  ELSE Result(session, "anything_else", <<>>)


\* ------------------------------------------------------ intent detection
handle_intent_detection(session) ==
  Result([session EXCEPT !.state = INTENT_DETECTION], "intent_menu", <<>>)

handle_cancel_start(session) ==
  Result([session EXCEPT !.state = CANCEL_START], "cancel_prompt", <<>>)

handle_reschedule_start(session) ==
  Result([session EXCEPT !.state = RESCHEDULE_START], "reschedule_prompt", <<>>)

handle_view_start(session) ==
  Result([session EXCEPT !.state = VIEW_START], "view_prompt", <<>>)

\* a menu that takes the numbers only
handle_intent_detection_response_M(session, user_input) ==
  LET input_lower == Strip(Lower(user_input))
  IN  IF input_lower = "1" THEN handle_greeting(session)
      ELSE IF input_lower = "2" THEN handle_cancel_start(session)
      ELSE IF input_lower = "3" THEN handle_reschedule_start(session)
      ELSE IF input_lower = "4" THEN handle_view_start(session)
      ELSE Result(session, "intent_menu_error", <<>>)

handle_intent_detection_response(session, user_input) ==
  LET input_lower == Strip(Lower(user_input))
  IN  IF input_lower \in {"1", "book", "booking", "schedule", "appointment"}
      THEN handle_greeting(session)
      ELSE IF input_lower \in {"2", "cancel", "cancellation"}
      THEN handle_cancel_start(session)
      ELSE IF input_lower \in {"3", "reschedule", "change"}
      THEN handle_reschedule_start(session)
      ELSE IF input_lower \in {"4", "view", "see", "show"}
      THEN handle_view_start(session)
      ELSE Result(session, "intent_menu_error", <<>>)

\* ----------------------------------------------------------------- cancel
handle_cancel_appointment_selection(session, user_input, store) ==
  LET appointments == get_patient_appointments(store, Strip(user_input))
      lookup == <<Call("get_patient_appointments", <<Strip(user_input)>>, TRUE)>>
      cancellable == FilterMutable(store, appointments)
  IN  IF appointments = <<>>
      THEN [Result(session, "no_appointments_found", <<user_input>>)
            EXCEPT !.calls = lookup]
      ELSE IF cancellable = <<>>
      THEN [Result(session, "none_cancellable", <<>>) EXCEPT !.calls = lookup]
      ELSE [Result([session EXCEPT !.data.available_appointments = cancellable,
                                   !.state = CANCEL_CONFIRMATION],
                   "cancel_list", <<cancellable>>)
            EXCEPT !.calls = lookup]

\* a selection step that gives up the flow on an out-of-range number
handle_cancel_confirmation_M(session, user_input, gateway_ok) ==
  LET appointment_index == IntValue(user_input) - 1
      available_appointments == session.data.available_appointments
      appointment == available_appointments[appointment_index + 1]
  IN  IF ~IntParses(user_input)
      THEN Result(session, "not_a_number", <<>>)
      ELSE IF appointment_index < 0 \/ appointment_index >= Len(available_appointments)
      THEN Result([session EXCEPT !.state = START], "invalid_selection",
                  <<1, Len(available_appointments)>>)
      ELSE [Result(IF gateway_ok THEN [session EXCEPT !.state = START] ELSE session,
                   IF gateway_ok THEN "cancel_success" ELSE "cancel_failed",
                   <<appointment>>)
            EXCEPT !.calls = <<Call("cancel", <<appointment, "Cancelled via chatbot">>,
                                    gateway_ok)>>]

\* a cancel step that stays at the list after a successful cancel
handle_cancel_confirmation_Stay(session, user_input, gateway_ok) ==
  LET appointment_index == IntValue(user_input) - 1
      available_appointments == session.data.available_appointments
      appointment == available_appointments[appointment_index + 1]
  IN  IF ~IntParses(user_input)
      THEN Result(session, "not_a_number", <<>>)
      ELSE IF appointment_index < 0 \/ appointment_index >= Len(available_appointments)
      THEN Result(session, "invalid_selection", <<1, Len(available_appointments)>>)
      ELSE [Result(session,
                   IF gateway_ok THEN "cancel_success" ELSE "cancel_failed",
                   <<appointment>>)
            EXCEPT !.calls = <<Call("cancel", <<appointment, "Cancelled via chatbot">>,
                                    gateway_ok)>>]

\* a cancel step that calls the gateway again when it reports failure
handle_cancel_confirmation_Retry(session, user_input, gateway_ok) ==
  LET appointment_index == IntValue(user_input) - 1
      available_appointments == session.data.available_appointments
      appointment == available_appointments[appointment_index + 1]
      cancel == Call("cancel", <<appointment, "Cancelled via chatbot">>, gateway_ok)
  IN  IF ~IntParses(user_input)
      THEN Result(session, "not_a_number", <<>>)
      ELSE IF appointment_index < 0 \/ appointment_index >= Len(available_appointments)
      THEN Result(session, "invalid_selection", <<1, Len(available_appointments)>>)
      ELSE [Result(IF gateway_ok THEN [session EXCEPT !.state = START] ELSE session,
                   IF gateway_ok THEN "cancel_success" ELSE "cancel_failed",
                   <<appointment>>)
            EXCEPT !.calls = IF gateway_ok THEN <<cancel>> ELSE <<cancel, cancel>>]

\* gateway_ok: what cancelAppointment reports if it is called
handle_cancel_confirmation(session, user_input, gateway_ok) ==
  LET appointment_index == IntValue(user_input) - 1
      available_appointments == session.data.available_appointments
      appointment == available_appointments[appointment_index + 1]
  IN  IF ~IntParses(user_input)
      THEN Result(session, "not_a_number", <<>>)
      ELSE IF appointment_index < 0 \/ appointment_index >= Len(available_appointments)
      THEN Result(session, "invalid_selection", <<1, Len(available_appointments)>>)
      ELSE [Result(IF gateway_ok THEN [session EXCEPT !.state = START] ELSE session,
                   IF gateway_ok THEN "cancel_success" ELSE "cancel_failed",
                   <<appointment>>)
            EXCEPT !.calls = <<Call("cancel", <<appointment, "Cancelled via chatbot">>,
                                    gateway_ok)>>]

\* ------------------------------------------------------------- reschedule
\* a search that shows the list even when it is empty
handle_reschedule_appointment_selection_M(session, user_input, store) ==
  LET appointments == get_patient_appointments(store, Strip(user_input))
      lookup == <<Call("get_patient_appointments", <<Strip(user_input)>>, TRUE)>>
      reschedulable == FilterMutable(store, appointments)
  IN  [Result([session EXCEPT !.data.available_appointments = reschedulable,
                              !.state = RESCHEDULE_APPOINTMENT_SELECTION],
              "reschedule_list", <<reschedulable>>)
       EXCEPT !.calls = lookup]

handle_reschedule_appointment_selection(session, user_input, store) ==
  LET appointments == get_patient_appointments(store, Strip(user_input))
      lookup == <<Call("get_patient_appointments", <<Strip(user_input)>>, TRUE)>>
      reschedulable == FilterMutable(store, appointments)
  IN  IF appointments = <<>>
      THEN [Result(session, "no_appointments_found", <<user_input>>)
            EXCEPT !.calls = lookup]
      ELSE IF reschedulable = <<>>
      THEN [Result(session, "none_reschedulable", <<>>) EXCEPT !.calls = lookup]
      ELSE [Result([session EXCEPT !.data.available_appointments = reschedulable,
                                   !.state = RESCHEDULE_APPOINTMENT_SELECTION],
                   "reschedule_list", <<reschedulable>>)
            EXCEPT !.calls = lookup]

\* a selection step that goes straight to the confirmation when the draft
\* still holds a new date and a new time
handle_reschedule_appointment_selection_response_M(session, user_input) ==
  LET appointment_index == IntValue(user_input) - 1
      available_appointments == session.data.available_appointments
      appointment == available_appointments[appointment_index + 1]
      leftover == session.data.new_date # Absent /\ session.data.new_time # Absent
  IN  IF ~IntParses(user_input)
      THEN Result(session, "not_a_number", <<>>)
      ELSE IF appointment_index < 0 \/ appointment_index >= Len(available_appointments)
      THEN Result(session, "invalid_selection", <<1, Len(available_appointments)>>)
      ELSE Result([session EXCEPT !.data.selected_appointment = appointment,
                                  !.state = IF leftover THEN RESCHEDULE_CONFIRMATION
                                            ELSE RESCHEDULE_DATE_SELECTION],
                  "new_date_prompt", <<appointment>>)

handle_reschedule_appointment_selection_response(session, user_input) ==
  LET appointment_index == IntValue(user_input) - 1
      available_appointments == session.data.available_appointments
      appointment == available_appointments[appointment_index + 1]
  IN  IF ~IntParses(user_input)
      THEN Result(session, "not_a_number", <<>>)
      ELSE IF appointment_index < 0 \/ appointment_index >= Len(available_appointments)
      THEN Result(session, "invalid_selection", <<1, Len(available_appointments)>>)
      ELSE Result([session EXCEPT !.data.selected_appointment = appointment,
                                  !.state = RESCHEDULE_DATE_SELECTION],
                  "new_date_prompt", <<appointment>>)

\* a date handler that stores the text before it validates it
handle_reschedule_date_selection_M(session, user_input) ==
  LET v == is_valid_date(user_input)
      stored == [session EXCEPT !.data.new_date = Strip(user_input)]
  IN  IF ~v[1]
      THEN Result(stored, "date_error", <<v[2], FALSE>>)
      ELSE Result([stored EXCEPT !.state = RESCHEDULE_TIME_SELECTION],
                  "new_time_prompt", <<Strip(user_input)>>)

handle_reschedule_date_selection(session, user_input) ==
  LET v == is_valid_date(user_input)
  IN  IF ~v[1]
      THEN Result(session, "date_error", <<v[2], FALSE>>)
      ELSE Result([session EXCEPT !.data.new_date = Strip(user_input),
                                  !.state = RESCHEDULE_TIME_SELECTION],
                  "new_time_prompt", <<Strip(user_input)>>)

\* session["data"]["selected_appointment"] raises KeyError on an absent key,
\* after new_time and the state have been written
handle_reschedule_time_selection(session, user_input) ==
  LET v == is_valid_time(user_input)
      after == [session EXCEPT !.data.new_time = Strip(user_input),
                               !.state = RESCHEDULE_CONFIRMATION]
  IN  IF ~v[1]
      THEN Result(session, "time_error", <<v[2]>>)
      ELSE IF after.data.selected_appointment = NoAppointment
              \/ after.data.new_date = Absent
      THEN Raise(after, "KeyError")
      ELSE Result(after, "reschedule_review",
                  <<after.data.selected_appointment, after.data.new_date,
                    after.data.new_time>>)

\* a confirmation step whose negative answer forgets the new date and time
handle_reschedule_confirmation_M(session, user_input, gateway_ok) ==
  LET response_lower == Lower(Strip(user_input))
      appointment == session.data.selected_appointment
      new_date == session.data.new_date
      new_time == session.data.new_time
  IN  IF response_lower \in AffirmativeAnswers
      THEN IF appointment = NoAppointment \/ new_date = Absent \/ new_time = Absent
           THEN Raise(session, "KeyError")
           ELSE [Result(IF gateway_ok THEN [session EXCEPT !.state = START] ELSE session,
                        IF gateway_ok THEN "reschedule_success" ELSE "reschedule_failed",
                        <<appointment, new_date, new_time>>)
                 EXCEPT !.calls = <<Call("reschedule", <<appointment, new_date, new_time>>,
                                         gateway_ok)>>]
      ELSE IF response_lower \in RescheduleNegativeAnswers
      THEN Result([session EXCEPT !.state = START, !.data.new_date = Absent,
                                  !.data.new_time = Absent],
                  "reschedule_cancelled", <<>>)
      ELSE Result(session, "yes_no_error", <<>>)

\* gateway_ok: what rescheduleAppointment reports if it is called
handle_reschedule_confirmation(session, user_input, gateway_ok) ==
  LET response_lower == Lower(Strip(user_input))
      appointment == session.data.selected_appointment
      new_date == session.data.new_date
      new_time == session.data.new_time
  IN  IF response_lower \in AffirmativeAnswers
      THEN IF appointment = NoAppointment \/ new_date = Absent \/ new_time = Absent
           THEN Raise(session, "KeyError")
           ELSE [Result(IF gateway_ok THEN [session EXCEPT !.state = START] ELSE session,
                        IF gateway_ok THEN "reschedule_success" ELSE "reschedule_failed",
                        <<appointment, new_date, new_time>>)
                 EXCEPT !.calls = <<Call("reschedule", <<appointment, new_date, new_time>>,
                                         gateway_ok)>>]
      ELSE IF response_lower \in RescheduleNegativeAnswers
      THEN Result([session EXCEPT !.state = START], "reschedule_cancelled", <<>>)
      ELSE Result(session, "yes_no_error", <<>>)

\* ------------------------------------------------------------------- view
handle_view_appointments(session, user_input, store) ==
  LET appointments == get_patient_appointments(store, Strip(user_input))
      lookup == <<Call("get_patient_appointments", <<Strip(user_input)>>, TRUE)>>
  IN  IF appointments = <<>>
      THEN [Result([session EXCEPT !.state = START], "view_none", <<user_input>>)
            EXCEPT !.calls = lookup]
      ELSE [Result([session EXCEPT !.state = VIEW_RESULTS], "view_list",
                   <<SortByDatetime(store, appointments)>>)
            EXCEPT !.calls = lookup]

handle_view_followup(session, user_input) ==
  LET input_lower == Strip(Lower(user_input))
  IN  IF input_lower \in {"book", "booking", "new", "schedule"}
      THEN handle_greeting(session)
      ELSE IF input_lower \in {"cancel", "cancellation"}
      THEN handle_cancel_start(session)
      ELSE IF input_lower \in {"reschedule", "change"}
      THEN handle_reschedule_start(session)
      ELSE IF input_lower \in {"no", "nothing", "thanks", "bye"}
      THEN Result([session EXCEPT !.state = START], "end", <<>>)
      ELSE Result(session, "view_help", <<>>)


(***************************************************************************)
(* get_response.  The state read at line 147 selects the handler; the      *)
(* handler named after a state runs on the turn after that state was       *)
(* entered, exactly as the if/elif chain pairs them.                       *)
(***************************************************************************)
\* a global abort that forgets one of its three words
GlobalAbortCommands_M == {"cancel", "exit"}

GlobalAbortCommands == {"cancel", "exit", "quit"}
GlobalRestartCommand == "restart"

Handled(name, result) == [handler |-> name, res |-> result]

\* a dispatch at START that takes an unclear intent for a booking
StartDispatch_M(session, user_input) ==
  LET intent == detect_intent(user_input)
  IN  IF intent = "book" THEN Handled("handle_greeting", handle_greeting(session))
      ELSE IF intent = "cancel"
      THEN Handled("handle_cancel_start", handle_cancel_start(session))
      ELSE IF intent = "reschedule"
      THEN Handled("handle_reschedule_start", handle_reschedule_start(session))
      ELSE IF intent = "view"
      THEN Handled("handle_view_start", handle_view_start(session))
      ELSE Handled("handle_greeting", handle_greeting(session))

StartDispatch(session, user_input) ==
  LET intent == detect_intent(user_input)
  IN  IF intent = "book" THEN Handled("handle_greeting", handle_greeting(session))
      ELSE IF intent = "cancel"
      THEN Handled("handle_cancel_start", handle_cancel_start(session))
      ELSE IF intent = "reschedule"
      THEN Handled("handle_reschedule_start", handle_reschedule_start(session))
      ELSE IF intent = "view"
      THEN Handled("handle_view_start", handle_view_start(session))
      ELSE Handled("handle_intent_detection", handle_intent_detection(session))

StateDispatch(session, user_input, store, clock, gateway_ok) ==
  LET state == session.state
  IN  CASE state = INTENT_DETECTION ->
             Handled("handle_intent_detection_response",
                     handle_intent_detection_response(session, user_input))
        [] state = GREETING ->
             Handled("handle_problem_assessment",
                     handle_problem_assessment(session, user_input))
        [] state = PROBLEM_ASSESSMENT ->
             Handled("handle_service_selection",
                     handle_service_selection(session, user_input))
        [] state = SERVICE_SELECTION ->
             Handled("handle_date_selection",
                     handle_date_selection(session, user_input))
        [] state = DATE_SELECTION ->
             Handled("handle_time_selection",
                     handle_time_selection(session, user_input))
        [] state = TIME_SELECTION ->
             Handled("handle_phone_collection",
                     handle_phone_collection(session, user_input))
        [] state = PHONE_COLLECTION ->
             Handled("handle_doctor_selection",
                     handle_doctor_selection(session, user_input))
        [] state = DOCTOR_SELECTION ->
             Handled("handle_confirmation",
                     handle_confirmation(session, user_input, gateway_ok))
        [] state = CONFIRMATION ->
             \* self._handle_booking_confirmation is not defined
             Handled("handle_booking_confirmation", Raise(session, "AttributeError"))
        [] state = BOOKING_COMPLETE ->
             Handled("handle_followup", handle_followup(session, user_input, clock))
        [] state = CANCEL_START ->
             Handled("handle_cancel_appointment_selection",
                     handle_cancel_appointment_selection(session, user_input, store))
        [] state = CANCEL_CONFIRMATION ->
             Handled("handle_cancel_confirmation",
                     handle_cancel_confirmation(session, user_input, gateway_ok))
        [] state = RESCHEDULE_START ->
             Handled("handle_reschedule_appointment_selection",
                     handle_reschedule_appointment_selection(session, user_input, store))
        [] state = RESCHEDULE_APPOINTMENT_SELECTION ->
             Handled("handle_reschedule_appointment_selection_response",
                     handle_reschedule_appointment_selection_response(session, user_input))
        [] state = RESCHEDULE_DATE_SELECTION ->
             Handled("handle_reschedule_date_selection",
                     handle_reschedule_date_selection(session, user_input))
        [] state = RESCHEDULE_TIME_SELECTION ->
             Handled("handle_reschedule_time_selection",
                     handle_reschedule_time_selection(session, user_input))
        [] state = RESCHEDULE_CONFIRMATION ->
             Handled("handle_reschedule_confirmation",
                     handle_reschedule_confirmation(session, user_input, gateway_ok))
        [] state = VIEW_START ->
             Handled("handle_view_appointments",
                     handle_view_appointments(session, user_input, store))
        [] state = VIEW_RESULTS ->
             Handled("handle_view_followup", handle_view_followup(session, user_input))
        [] OTHER ->
             Handled("unknown_state", Result(session, "not_sure", <<>>))

\* a restart that greets again without replacing the session
Respond_M(session, user_input, store, clock, gateway_ok) ==
  IF Lower(user_input) \in GlobalAbortCommands
  THEN Handled("global_abort",
               Result([session EXCEPT !.state = START], "conversation_cancelled", <<>>))
  ELSE IF Lower(user_input) = GlobalRestartCommand
  THEN Handled("global_restart", handle_greeting(session))
  ELSE IF session.state = START
  THEN StartDispatch(session, user_input)
  ELSE StateDispatch(session, user_input, store, clock, gateway_ok)

\* a dispatch that tests the global commands only in state START
Respond_StateFirst(session, user_input, store, clock, gateway_ok) ==
  IF session.state # START
  THEN StateDispatch(session, user_input, store, clock, gateway_ok)
  ELSE IF Lower(user_input) \in GlobalAbortCommands
  THEN Handled("global_abort",
               Result([session EXCEPT !.state = START], "conversation_cancelled", <<>>))
  ELSE IF Lower(user_input) = GlobalRestartCommand
  THEN Handled("global_restart",
               handle_greeting(create_session(session.user_name, clock)))
  ELSE StartDispatch(session, user_input)

\* lines 150-215, on the session that lines 142-148 found or created
Respond(session, user_input, store, clock, gateway_ok) ==
  IF Lower(user_input) \in GlobalAbortCommands
  THEN Handled("global_abort",
               Result([session EXCEPT !.state = START], "conversation_cancelled", <<>>))
  ELSE IF Lower(user_input) = GlobalRestartCommand
  THEN Handled("global_restart",
               handle_greeting(create_session(session.user_name, clock)))
  ELSE IF session.state = START
  THEN StartDispatch(session, user_input)
  ELSE StateDispatch(session, user_input, store, clock, gateway_ok)

\* a store whose entries all refer to the caller's session
TurnRecord_M(held, user_name, h, store, swept) ==
  [sessions |-> [u \in DOMAIN held |-> h.res.sess],
   handler |-> h.handler,
   reply |-> h.res.reply,
   calls |-> h.res.calls,
   raised |-> h.res.raised,
   read_unset |-> h.res.read_unset,
   pre |-> held[user_name],
   created |-> ~HasSession(swept, user_name),
   sweep_ran |-> SweepDue(store),
   held_before |-> DOMAIN store,
   evicted |-> DOMAIN store \ DOMAIN swept]

TurnRecord(held, user_name, h, store, swept) ==
  [sessions |-> [held EXCEPT ![user_name] = h.res.sess],
   handler |-> h.handler,
   reply |-> h.res.reply,
   calls |-> h.res.calls,
   raised |-> h.res.raised,
   read_unset |-> h.res.read_unset,
   pre |-> held[user_name],
   created |-> ~HasSession(swept, user_name),
   sweep_ran |-> SweepDue(store),
   held_before |-> DOMAIN store,
   evicted |-> DOMAIN store \ DOMAIN swept]

get_response(store, gateway, clock, raw_input, user_name, gateway_ok) ==
  LET swept == IF SweepDue(store) THEN cleanup_old_sessions(store, clock) ELSE store
      held == get_or_create_session(swept, user_name, clock)
      user_input == Strip(raw_input)
  IN  CHOOSE r \in {TurnRecord(held, user_name, h, store, swept) :
                      h \in {Respond(held[user_name], user_input, gateway, clock,
                                     gateway_ok)}} : TRUE

(***************************************************************************)
(* The state machine.  One Turn is one call of get_response; the gateway's *)
(* records change by the mutations the turn's handler had reported         *)
(* successful.                                                             *)
(***************************************************************************)
EmptyStore == [u \in {} |-> create_session(u, 0)]

InitialAppointments ==
  << [patient_name |-> "Alice", patient_phone |-> "+1-555-0100",
      status |-> COMPLETED, date |-> "2025-06-16", time |-> "09:00"],
     [patient_name |-> "Alice", patient_phone |-> "+1-555-0100",
      status |-> SCHEDULED, date |-> "2025-07-01", time |-> "10:30"],
     [patient_name |-> "Alice", patient_phone |-> "+1-555-0100",
      status |-> CONFIRMED, date |-> "2025-06-18", time |-> "16:00"] >>

Users == {"Alice"}

NoTurn ==
  [user |-> "", input |-> "", handler |-> "none",
   reply |-> Reply("none", <<>>), calls |-> <<>>, raised |-> "none",
   read_unset |-> {}, pre |-> create_session("", 0), created |-> FALSE,
   sweep_ran |-> FALSE, held_before |-> {}, evicted |-> {},
   nth |-> 0, at |-> 0, seen_before |-> [u \in Users |-> <<>>]]

\* the scripted booking conversation of the end-to-end scenario
ScriptUser == "Alice"
Script ==
  <<"book an appointment", "I have tooth pain", "2", "2025-06-20", "14:00",
    "+1-555-0100", "any", "yes">>

ScriptStep(cur, user, raw, created) ==
  IF user # ScriptUser THEN cur
  ELSE IF created THEN (IF raw = Script[1] THEN 1 ELSE 0)
  ELSE IF cur \in 1..(Len(Script) - 1) /\ raw = Script[cur + 1] THEN cur + 1
  ELSE 0

(***************************************************************************)
(* The inputs a user sends.  In each state the user may send a global      *)
(* command, an answer (valid or not) to the prompt that state's entry      *)
(* showed, an answer to the question the handler dispatched for that state *)
(* expects, or something unrelated.                                        *)
(***************************************************************************)
GlobalTexts == {"cancel", " EXIT ", "quit", "restart"}
IntentTexts ==
  {"book an appointment", "cancel my appointment", "change my appointment",
   "show my appointments", "hello"}
MenuTexts == {"1", "2", "3", "4", "change", "hello"}
ProblemTexts == {"I have tooth pain"}
ServiceTexts == {"2", "cleaning", "12"}
DateTexts == {"2025-06-20", "2025-06-01", "2"}
TimeTexts == {"14:00", "14:15"}
PhoneTexts == {"+1-555-0100", "12345"}
DoctorTexts == {"any", "John Smith", "Dr Who"}
AnswerTexts == {"yes", "sure", "no", "edit", "maybe"}
KeyTexts == {"Alice", "Bob"}
NumberTexts == {"0", "1", "2", "3", "maybe"}
FollowUpTexts == {"book", "cancellation", "reschedule", "no", "bye", "maybe"}

PromptedTexts(state) ==
  CASE state = START -> IntentTexts
    [] state = INTENT_DETECTION -> MenuTexts
    [] state = GREETING -> ProblemTexts
    [] state = PROBLEM_ASSESSMENT -> ServiceTexts
    [] state = SERVICE_SELECTION -> ServiceTexts \cup DateTexts
    [] state = DATE_SELECTION -> DateTexts \cup TimeTexts
    [] state = TIME_SELECTION -> TimeTexts \cup PhoneTexts
    [] state = PHONE_COLLECTION -> PhoneTexts \cup DoctorTexts
    [] state = DOCTOR_SELECTION -> DoctorTexts \cup AnswerTexts
    [] state = CONFIRMATION -> AnswerTexts
    [] state = BOOKING_COMPLETE -> FollowUpTexts
    [] state \in {CANCEL_START, RESCHEDULE_START, VIEW_START} -> KeyTexts
    [] state = CANCEL_CONFIRMATION -> NumberTexts \cup {"yes"}
    [] state = RESCHEDULE_APPOINTMENT_SELECTION -> NumberTexts
    [] state = RESCHEDULE_DATE_SELECTION -> DateTexts
    [] state = RESCHEDULE_TIME_SELECTION -> TimeTexts
    [] state = RESCHEDULE_CONFIRMATION -> AnswerTexts
    [] state = VIEW_RESULTS -> FollowUpTexts
    [] OTHER -> {}

InputsAt(state) == GlobalTexts \cup PromptedTexts(state)

Inputs == UNION {InputsAt(state) : state \in ConversationState}

StateOf(store, user) ==
  IF HasSession(store, user) THEN store[user].state ELSE START

\* the gateway operations that change its records
MutationOps == {"book_appointment_validated", "cancel", "reschedule"}

Mutations(calls) == {i \in 1..Len(calls) : calls[i].op \in MutationOps}

Init ==
  /\ sessions = EmptyStore
  /\ appts = InitialAppointments
  /\ now = 0
  /\ last = NoTurn
  /\ step = 0
  /\ mutations = 0

\* the gateway reports success for at most MaxMutations mutations of a run
MaxMutations == 1

\* the hour of the latest turn of user u, if it has had one
Seen(u) == IF last.user = u THEN <<last.at>> ELSE last.seen_before[u]

\* nth: the number of the call in the run, where the run counts its calls
TurnAs(user, raw, gateway_ok, nth) ==
  \E r \in {get_response(sessions, appts, now, raw, user, gateway_ok)} :
      /\ Mutations(r.calls) = {} => gateway_ok
      /\ Mutations(r.calls) # {} /\ gateway_ok => mutations < MaxMutations
      /\ mutations' = IF Mutations(r.calls) # {} /\ gateway_ok
                      THEN mutations + 1 ELSE mutations
      /\ sessions' = r.sessions
      /\ appts' = ApplyCalls(appts, r.calls)
      /\ last' = [user |-> user, input |-> raw, handler |-> r.handler,
                  reply |-> r.reply, calls |-> r.calls, raised |-> r.raised,
                  read_unset |-> r.read_unset, pre |-> r.pre,
                  created |-> r.created, sweep_ran |-> r.sweep_ran,
                  held_before |-> r.held_before, evicted |-> r.evicted,
                  nth |-> nth, at |-> now,
                  seen_before |-> [u \in Users |-> Seen(u)]]
      /\ step' = ScriptStep(step, user, raw, r.created)
      /\ UNCHANGED now

Turn(user, raw, gateway_ok) == TurnAs(user, raw, gateway_ok, 0)

Next == \E user \in Users :
          \E raw \in InputsAt(StateOf(sessions, user)), gateway_ok \in BOOLEAN :
            Turn(user, raw, gateway_ok)

Spec == Init /\ [][Next]_vars

(***************************************************************************)
(* The store under load.  Nine other users each make first contact with    *)
(* "hello", one after the other, and then stay silent, so that the store   *)
(* reaches the size at which the sweep runs; the clock advances by hours.  *)
(***************************************************************************)
OtherUsers == <<"u1", "u2", "u3", "u4", "u5", "u6", "u7", "u8", "u9">>

SweepTexts ==
  {"hello", "I have tooth pain", "2025-06-20", "cancel", "restart"}

\* the clock stops at MaxClock hours
MaxClock == 2

Tick ==
  /\ now < MaxClock
  /\ now' = now + 1
  /\ UNCHANGED <<sessions, appts, last, step, mutations>>

FirstContact(i) ==
  /\ ~HasSession(sessions, OtherUsers[i])
  /\ \A j \in 1..(i - 1) : HasSession(sessions, OtherUsers[j])
  /\ Turn(OtherUsers[i], "hello", TRUE)

UserTurn ==
  \E user \in Users :
    \E raw \in InputsAt(StateOf(sessions, user)) \cap SweepTexts :
      Turn(user, raw, TRUE)

NextSweep ==
  \/ Tick
  \/ \E i \in 1..Len(OtherUsers) : FirstContact(i)
  \/ UserTurn

SpecSweep == Init /\ [][NextSweep]_vars


(***************************************************************************)
(* The store under load with calls that keep arriving: some call of        *)
(* get_response is made again and again, and the clock advances until it   *)
(* stops.                                                                  *)
(***************************************************************************)
AnyCall == UserTurn \/ \E i \in 1..Len(OtherUsers) : FirstContact(i)

SpecLive ==
  Init /\ [][NextSweep]_vars /\ WF_vars(Tick) /\ WF_vars(AnyCall)

(***************************************************************************)
(* Two users at once.  Alice and Bob each hold a session and send their    *)
(* turns in any order; both may search the gateway by the same key, so the *)
(* candidate lists of the two sessions can name the same appointments.     *)
(***************************************************************************)
PairUsers == {"Alice", "Bob"}

PairTexts ==
  {"cancel my appointment", "change my appointment", "Alice", "1",
   "2025-06-20", "14:00", "yes", "quit"}

PairTurn ==
  \E user \in PairUsers :
    \E raw \in InputsAt(StateOf(sessions, user)) \cap PairTexts,
       gateway_ok \in BOOLEAN :
      Turn(user, raw, gateway_ok)

SpecPair == Init /\ [][PairTurn]_vars

(***************************************************************************)
(* The calls of a run, counted.  Every call of get_response, whoever makes *)
(* it, is numbered from 1; the other users make first contact in order and *)
(* the clock stands still.                                                 *)
(***************************************************************************)
\* the run stops after MaxCalls calls
MaxCalls == 12

CadenceTexts == {"hello", "restart", "quit", "I have tooth pain"}

CadenceTurn ==
  /\ last.nth < MaxCalls
  /\ \E raw \in CadenceTexts : TurnAs("Alice", raw, TRUE, last.nth + 1)

CadenceJoin ==
  /\ last.nth < MaxCalls
  /\ \E i \in 1..Len(OtherUsers) :
       /\ ~HasSession(sessions, OtherUsers[i])
       /\ \A j \in 1..(i - 1) : HasSession(sessions, OtherUsers[j])
       /\ TurnAs(OtherUsers[i], "hello", TRUE, last.nth + 1)

NextCadence == CadenceTurn \/ CadenceJoin

SpecCadence == Init /\ [][NextCadence]_vars

(***************************************************************************)
(* The commit step as a function of the draft: _handle_confirmation        *)
(* applied to a session that holds any draft, complete or not, with the    *)
(* gateway reporting either result.                                        *)
(***************************************************************************)
CommitStates == {DOCTOR_SELECTION, CONFIRMATION}
DraftProblems == {None, "I have tooth pain"}
DraftServices == {None, "Cleaning", "Polishing"}
DraftDates == {None, "2025-06-20", "2025-06-01"}
DraftTimes == {None, "14:00", "07:30"}
DraftPhones == {None, "+1-555-0100"}
DraftDoctors == {None, "Any"}

DraftSession(state, problem, service, date, time, phone, doctor) ==
  [create_session(ScriptUser, 0)
     EXCEPT !.state = state, !.data.problem = problem,
            !.data.service_type = service, !.data.date = date,
            !.data.time = time, !.data.phone = phone,
            !.data.doctor_name = doctor]

InitCommit ==
  /\ sessions \in
       {[u \in {ScriptUser} |-> DraftSession(st, pr, sv, dt, tm, ph, dr)] :
          st \in CommitStates, pr \in DraftProblems, sv \in DraftServices,
          dt \in DraftDates, tm \in DraftTimes, ph \in DraftPhones,
          dr \in DraftDoctors}
  /\ appts = InitialAppointments
  /\ now = 0
  /\ last = NoTurn
  /\ step = 0
  /\ mutations = 0

Commit ==
  \E raw \in AnswerTexts, gateway_ok \in BOOLEAN :
    \E h \in {handle_confirmation(sessions[ScriptUser], Strip(raw), gateway_ok)} :
      /\ sessions[ScriptUser].state \in CommitStates
      /\ Mutations(h.calls) = {} => gateway_ok
      /\ sessions' = [sessions EXCEPT ![ScriptUser] = h.sess]
      /\ appts' = ApplyCalls(appts, h.calls)
      /\ last' = [user |-> ScriptUser, input |-> raw,
                  handler |-> "handle_confirmation",
                  reply |-> h.reply, calls |-> h.calls, raised |-> h.raised,
                  read_unset |-> h.read_unset, pre |-> sessions[ScriptUser],
                  created |-> FALSE, sweep_ran |-> FALSE,
                  held_before |-> DOMAIN sessions, evicted |-> {},
                  nth |-> 0, at |-> now,
                  seen_before |-> [u \in Users |-> Seen(u)]]
      /\ UNCHANGED <<now, step, mutations>>

SpecCommit == InitCommit /\ [][Commit]_vars

(***************************************************************************)
(* The classifier and the validators as functions of their input: each     *)
(* action applies one of them to a text and records the text and the       *)
(* result in last.  The functions keep no state, so a behaviour applies    *)
(* one of them once.                                                       *)
(***************************************************************************)
IntentWords ==
  {"cancel", "reschedule", "change", "view", "my", "book", "appointment",
   "hello", "Delete", "MOVE", "please"}

IntentPhrases ==
  IntentWords \cup {a \o " " \o b : a, b \in IntentWords} \cup {"", "  Cancel  "}

DigitStr(n) == CHOOSE c \in Digits : DigitVal(c) = n

TwoDigits(n) == DigitStr(n \div 10) \o DigitStr(n % 10)

\* strftime("%Y-%m-%d") of a year 2000..2099
DateText(y, m, d) == "20" \o TwoDigits(y % 100) \o "-" \o TwoDigits(m) \o "-" \o TwoDigits(d)

DateYears == {2024, 2025, 2026}

MalformedDates ==
  {"", "2", "tomorrow", "20250620", "2025/06/20", "20-06-2025", "2025-13-01",
   "2025-00-10", "2025-06-00", "2025-06-20 10:00", "25-06-20", "2025-06-2x"}

DateInputs ==
  {DateText(y, m, d) : y \in DateYears, m \in 1..12, d \in 1..31}
    \cup MalformedDates \cup {" 2025-06-20 ", "2025-6-20", "2025-07-4"}

Applied(function, text, result, args) ==
  [NoTurn EXCEPT !.input = text, !.handler = function,
                 !.reply = Reply(result, args)]

Classify ==
  /\ last = NoTurn
  /\ \E text \in IntentPhrases :
       last' = Applied("detect_intent", text, detect_intent(text), <<>>)
  /\ UNCHANGED <<sessions, appts, now, step, mutations>>

ValidateDate ==
  /\ last = NoTurn
  /\ \E text \in DateInputs :
       \E v \in {is_valid_date(text)} :
         last' = Applied("is_valid_date", text, v[2], <<v[1]>>)
  /\ UNCHANGED <<sessions, appts, now, step, mutations>>

\* strftime("%H:%M")
TimeText(h, m) == TwoDigits(h) \o ":" \o TwoDigits(m)

MalformedTimes ==
  {"", "14", "1400", "14:00:00", "24:00", "14:60", "2pm", "14.30", "14:3o", ":30"}

TimeInputs ==
  {TimeText(h, m) : h \in 0..23, m \in 0..59}
    \cup MalformedTimes \cup {" 14:30 ", "8:00", "9:5", "14:0"}

Repeat(c, n) ==
  LET F[k \in 0..n] == IF k = 0 THEN "" ELSE F[k - 1] \o c
  IN  F[n]

PhoneInputs ==
  {pre \o Repeat("5", n) \o post :
     pre \in {"", " ", "+1-", "(0)", "x"}, n \in 4..21,
     post \in {"", " ", "\t9", "#", "-9"}}
    \cup {"", "       ", "+1-555-0100", "(555) 123-4567", "555.123.4567",
          "abcdefg", "555 1234", "555\t1234"}

ValidateTime ==
  /\ last = NoTurn
  /\ \E text \in TimeInputs :
       \E v \in {is_valid_time(text)} :
         last' = Applied("is_valid_time", text, v[2], <<v[1]>>)
  /\ UNCHANGED <<sessions, appts, now, step, mutations>>

ValidatePhone ==
  /\ last = NoTurn
  /\ \E text \in PhoneInputs :
       last' = Applied("is_valid_phone", text, "none", <<is_valid_phone(text)>>)
  /\ UNCHANGED <<sessions, appts, now, step, mutations>>

NextFunctions == Classify \/ ValidateDate \/ ValidateTime \/ ValidatePhone

SpecFunctions == Init /\ [][NextFunctions]_vars

(***************************************************************************)
(* Properties.  last records the turn that led to the current state: the   *)
(* session as the dispatch found it (pre), the input, the handler that     *)
(* ran, its reply and its gateway calls.                                   *)
(***************************************************************************)
Acted == last.handler # "none"

\* the session of the user of the last turn, as the turn left it
Post == sessions[last.user]

Answer == Lower(Strip(last.input))

CallsOf(op) == {i \in 1..Len(last.calls) : last.calls[i].op = op}

DraftCleared(session) ==
  /\ session.data.problem = None
  /\ session.data.service_type = None
  /\ session.data.date = None
  /\ session.data.time = None
  /\ session.data.phone = None
  /\ session.data.doctor_name = None
  /\ session.data.notes = None
  /\ session.data.available_appointments = <<>>
  /\ session.data.selected_appointment = NoAppointment
  /\ session.data.new_date = Absent
  /\ session.data.new_time = Absent

\* C1: the scripted booking conversation of a fresh session gets, turn by
\* turn, the greeting, the service menu, the date, time, phone and doctor
\* prompts, the review of the six collected fields and, on yes, a create
\* request carrying them, a success reply and the state BOOKING_COMPLETE.
ScriptReplies ==
  <<"greeting", "service_menu", "date_prompt", "time_prompt", "phone_prompt",
    "doctor_prompt", "review">>

ScriptFields ==
  <<"Alice", "+1-555-0100", "Cleaning", "2025-06-20", "14:00", "Any">>

C1_EndToEndBooking ==
  /\ step \in 1..7 => last.reply.kind = ScriptReplies[step]
  /\ step = 7 => last.reply.args = ScriptFields
  /\ step = 8 /\ (\A i \in CallsOf("book_appointment_validated") : last.calls[i].result)
       => /\ \E i \in CallsOf("book_appointment_validated") :
                SubSeq(last.calls[i].args, 1, 6) =
                  <<"Alice", "+1-555-0100", "Any", "2025-06-20", "14:00", "Cleaning">>
          /\ last.reply.kind = "booking_success"
          /\ sessions[ScriptUser].state = BOOKING_COMPLETE

\* C2: the booking flow can be driven to completion: a turn that affirms at
\* the booking confirmation, with the gateway not reporting a failure, has
\* invoked createAppointment and leaves the session in BOOKING_COMPLETE.
C2_BookingCompletes ==
  (/\ last.handler = "handle_confirmation"
   /\ Answer \in {"yes", "y", "ok", "correct", "sure"}
   /\ \A i \in CallsOf("book_appointment_validated") : last.calls[i].result)
    => /\ CallsOf("book_appointment_validated") # {}
       /\ Post.state = BOOKING_COMPLETE

\* what TLC finds instead: no reachable state has a session in
\* BOOKING_COMPLETE, and no turn invokes createAppointment
C2_NoBookingEverCompletes ==
  /\ \A u \in DOMAIN sessions : sessions[u].state # BOOKING_COMPLETE
  /\ CallsOf("book_appointment_validated") = {}

\* C3: a session in a booking-flow state stays there, moves to the next
\* state of the chain, or leaves to START or GREETING; no state is skipped.
BookingChain ==
  <<GREETING, PROBLEM_ASSESSMENT, SERVICE_SELECTION, DATE_SELECTION,
    TIME_SELECTION, PHONE_COLLECTION, DOCTOR_SELECTION, CONFIRMATION,
    BOOKING_COMPLETE>>

ChainIndex(state) == CHOOSE i \in 1..Len(BookingChain) : BookingChain[i] = state

InChain(state) == \E i \in 1..Len(BookingChain) : BookingChain[i] = state

C3_BookingStateOrder ==
  (Acted /\ InChain(last.pre.state))
    => \/ Post.state = last.pre.state
       \/ Post.state \in {START, GREETING}
       \/ /\ InChain(Post.state)
          /\ ChainIndex(Post.state) = ChainIndex(last.pre.state) + 1

\* C4: from every non-START state, whatever the draft holds, cancel, exit or
\* quit (trimmed, in any case) leaves the session in START with the abort
\* message.
C4_GlobalAbort ==
  (Acted /\ last.pre.state # START /\ Answer \in {"cancel", "exit", "quit"})
    => /\ Post.state = START
       /\ last.reply.kind = "conversation_cancelled"

C4_Witness ==
  /\ Acted /\ last.pre.state = DOCTOR_SELECTION
  /\ last.pre.data.phone # None
  /\ Answer = "quit"
  /\ Post.state = START

\* C5: restart replaces the session by a new one with every draft field
\* unset, in state GREETING, and replies with the greeting.
C5_GlobalRestart ==
  (Acted /\ Answer = "restart")
    => /\ Post.state = GREETING
       /\ DraftCleared(Post)
       /\ Post.data.patient_name = last.user
       /\ last.reply.kind = "greeting"

C5_Witness ==
  /\ Acted /\ Answer = "restart"
  /\ last.pre.data.phone # None
  /\ last.pre.data.available_appointments # <<>>
  /\ last.pre.state = RESCHEDULE_CONFIRMATION
  /\ DraftCleared(Post)


\* C6: sessions are created lazily: the store starts empty and a turn adds
\* at most the session of its own user; every newly created session (first
\* contact, or re-creation after eviction) is in START with no draft field
\* set but the patient name when the triggering input is dispatched.
C6_FreshSession ==
  /\ ~Acted => sessions = EmptyStore
  /\ Acted => DOMAIN sessions = (last.held_before \ last.evicted) \cup {last.user}
  /\ Acted => (last.created <=> last.user \notin (last.held_before \ last.evicted))
  /\ (Acted /\ last.created)
       => /\ last.pre.state = START
          /\ DraftCleared(last.pre)
          /\ last.pre.data.patient_name = last.user

\* a session the store held is evicted by the sweep of its own user's turn
\* and created again
C6_Witness ==
  /\ Acted /\ last.created
  /\ last.user \in last.evicted
  /\ last.pre.state = START
  /\ DraftCleared(last.pre)
  /\ Post.state = GREETING

\* C7: at the data-collection steps (booking date, time, phone; reschedule
\* date and time; the numeric selection of cancel and reschedule) an input
\* that fails the step's validation leaves the session as it was (state and
\* draft) and causes no gateway mutation.  The step is the handler that
\* validates the input.
BadSelection(session, user_input) ==
  \/ ~IntParses(user_input)
  \/ IntValue(user_input) < 1
  \/ IntValue(user_input) > Len(session.data.available_appointments)

FailsValidation(handler, session, user_input) ==
  \/ /\ handler \in {"handle_date_selection", "handle_reschedule_date_selection"}
     /\ ~is_valid_date(user_input)[1]
  \/ /\ handler \in {"handle_time_selection", "handle_reschedule_time_selection"}
     /\ ~is_valid_time(user_input)[1]
  \/ /\ handler = "handle_phone_collection"
     /\ ~is_valid_phone(user_input)
  \/ /\ handler \in {"handle_cancel_confirmation",
                     "handle_reschedule_appointment_selection_response"}
     /\ BadSelection(session, user_input)

C8_NoUnsetFieldRead ==
  Acted => last.read_unset = {} /\ last.raised # "KeyError"

\* C9: in the confirmation steps of the booking and reschedule flows, each
\* of yes, y, ok, correct, sure proceeds to the commit; each of no, n,
\* cancel, edit sets the state to START with no gateway mutation; any other
\* input leaves the state unchanged and re-prompts.
CommitReplies ==
  {"booking_success", "booking_failed", "booking_exception",
   "reschedule_success", "reschedule_failed"}

C9_ConfirmationAnswers ==
  (Acted /\ last.handler \in {"handle_confirmation", "handle_reschedule_confirmation"})
    => /\ Answer \in {"yes", "y", "ok", "correct", "sure"}
            => last.reply.kind \in CommitReplies
       /\ Answer \in {"no", "n", "cancel", "edit"}
            => Post.state = START /\ Mutations(last.calls) = {}
       /\ Answer \notin {"yes", "y", "ok", "correct", "sure", "no", "n", "cancel", "edit"}
            => Post.state = last.pre.state /\ last.reply.kind = "yes_no_error"

\* C10: cancelAppointment is invoked only on a turn that answers a
\* confirmation prompt with yes, y, ok, correct or sure, after an earlier
\* turn selected the appointment; selecting a number alone cancels nothing.
C10_CancelNeedsConfirmation ==
  (Acted /\ CallsOf("cancel") # {})
    => /\ Answer \in {"yes", "y", "ok", "correct", "sure"}
       /\ last.pre.data.selected_appointment # NoAppointment
       /\ \A i \in CallsOf("cancel") :
            last.calls[i].args[1] = last.pre.data.selected_appointment

\* C11: in CANCEL_START, when the gateway finds no appointment for the key,
\* the reply is the no-appointments-found message and the session goes to
\* START without entering CANCEL_CONFIRMATION.
C11_CancelNoAppointments ==
  (/\ Acted
   /\ last.handler = "handle_cancel_appointment_selection"
   /\ last.pre.state = CANCEL_START
   /\ get_patient_appointments(appts, Strip(last.input)) = <<>>)
    => /\ last.reply.kind = "no_appointments_found"
       /\ Post.state = START

\* the selection steps and the size N of the candidate list they index
SelectionHandlers ==
  {"handle_cancel_confirmation", "handle_reschedule_appointment_selection_response"}

SelectionStates == {CANCEL_CONFIRMATION, RESCHEDULE_APPOINTMENT_SELECTION}

Candidates == Len(last.pre.data.available_appointments)

\* C12: at the selection steps, with N candidates, a number below 1 or above
\* N leaves the session (state, candidate list, selected appointment)
\* unchanged, makes no gateway mutation call and is answered with the range
\* 1..N.
C12_OutOfRangeSelection ==
  (/\ Acted
   /\ last.pre.state \in SelectionStates
   /\ IntParses(Strip(last.input))
   /\ (IntValue(Strip(last.input)) < 1 \/ IntValue(Strip(last.input)) > Candidates))
    => /\ last.handler \in SelectionHandlers
       /\ Post.state = last.pre.state
       /\ Post.data.available_appointments = last.pre.data.available_appointments
       /\ Post.data.selected_appointment = last.pre.data.selected_appointment
       /\ Mutations(last.calls) = {}
       /\ last.reply = Reply("invalid_selection", <<1, Candidates>>)

C12_Witness ==
  /\ Acted /\ last.pre.state = CANCEL_CONFIRMATION
  /\ Candidates = 2
  /\ Strip(last.input) = "3"
  /\ last.reply = Reply("invalid_selection", <<1, 2>>)
  /\ Post.state = CANCEL_CONFIRMATION

\* C13: at the selection steps a non-numeric input is answered like an
\* out-of-range number, with the range 1..N restated, and the state stays.
C13_NonNumericSelection ==
  (/\ Acted
   /\ last.handler \in SelectionHandlers
   /\ ~IntParses(Strip(last.input)))
    => /\ Post.state = last.pre.state
       /\ last.reply = Reply("invalid_selection", <<1, Candidates>>)

\* C14: when cancelAppointment or rescheduleAppointment reports failure the
\* reply is an error message and the session goes to START; when
\* createAppointment reports failure the session stays where it was.
FailedCalls(op) == {i \in CallsOf(op) : ~last.calls[i].result}

C14_GatewayFailure ==
  /\ (Acted /\ FailedCalls("cancel") # {})
       => last.reply.kind = "cancel_failed" /\ Post.state = START
  /\ (Acted /\ FailedCalls("reschedule") # {})
       => last.reply.kind = "reschedule_failed" /\ Post.state = START
  /\ (Acted /\ FailedCalls("book_appointment_validated") # {})
       => last.reply.kind = "booking_failed" /\ Post.state = last.pre.state

\* C15: the commit leaves the session in BOOKING_COMPLETE exactly when the
\* create call reported success; when it reported failure, or an error was
\* raised while building the request, the session (state and draft) is as
\* it was before the turn and the turn still gives a reply.
Created == \E i \in CallsOf("book_appointment_validated") : last.calls[i].result

C15_BookingCommit ==
  (/\ Acted
   /\ last.handler = "handle_confirmation"
   /\ Answer \in {"yes", "y", "ok", "correct", "sure"})
    => /\ Post.state = BOOKING_COMPLETE <=> Created
       /\ ~Created => /\ Post = last.pre
                      /\ last.reply.kind \in {"booking_failed", "booking_exception"}
                      /\ last.raised = "none"

C15_Witness ==
  /\ Acted /\ Answer = "sure"
  /\ FailedCalls("book_appointment_validated") # {}
  /\ last.reply.kind = "booking_failed"
  /\ Post = last.pre
  /\ Post.data.service_type = "Cleaning"

\* a commit that went through: the gateway holds one more appointment
C15_Booked ==
  /\ Acted /\ Created
  /\ Post.state = BOOKING_COMPLETE
  /\ Len(appts) = Len(InitialAppointments) + 1

\* C16: the candidate list a cancel or reschedule search stores holds, in
\* gateway order, the appointments returned for the key whose status at the
\* lookup is Scheduled or Confirmed, never a Completed or Cancelled one; the
\* number typed at the selection step is a 1-based index into that list.
SearchHandlers ==
  {"handle_cancel_appointment_selection", "handle_reschedule_appointment_selection"}

Found == get_patient_appointments(appts, Strip(last.input))

InOrder(list) == \A i, j \in 1..Len(list) : i < j => list[i] < list[j]

Members(list) == {list[i] : i \in 1..Len(list)}

C16_CandidateFiltering ==
  /\ (Acted /\ last.handler \in SearchHandlers /\ Post.state \in SelectionStates)
       => /\ InOrder(Post.data.available_appointments)
          /\ Members(Post.data.available_appointments) \subseteq Members(Found)
          /\ \A a \in Members(Post.data.available_appointments) :
               appts[a].status \notin {COMPLETED, CANCELLED}
          /\ \A a \in Members(Found) :
               appts[a].status \in {SCHEDULED, CONFIRMED}
                 => a \in Members(Post.data.available_appointments)
  /\ (/\ Acted /\ last.handler \in SelectionHandlers
      /\ IntParses(Strip(last.input))
      /\ IntValue(Strip(last.input)) \in 1..Candidates)
       => LET chosen == last.pre.data.available_appointments[IntValue(Strip(last.input))]
          IN  /\ last.handler = "handle_reschedule_appointment_selection_response"
                   => Post.data.selected_appointment = chosen
              /\ last.handler = "handle_cancel_confirmation"
                   => /\ CallsOf("cancel") # {}
                      /\ \A i \in CallsOf("cancel") : last.calls[i].args[1] = chosen

\* a search made after appointment 2 was cancelled lists appointment 3 alone
C16_Witness ==
  /\ Acted /\ last.handler = "handle_reschedule_appointment_selection"
  /\ Found = <<1, 2, 3>>
  /\ appts[1].status = COMPLETED /\ appts[2].status = CANCELLED
  /\ Post.data.available_appointments = <<3>>
  /\ Post.state = RESCHEDULE_APPOINTMENT_SELECTION

\* C17: in VIEW_RESULTS book leads to GREETING, cancel to CANCEL_START,
\* reschedule to RESCHEDULE_START and exit to START; any other input
\* re-prompts and leaves the state unchanged.
FollowUpChoices == {"book", "cancel", "reschedule", "exit"}

C17_ViewFollowUp ==
  (Acted /\ last.pre.state = VIEW_RESULTS)
    => /\ Answer = "book" => Post.state = GREETING
       /\ Answer = "cancel" => Post.state = CANCEL_START
       /\ Answer = "reschedule" => Post.state = RESCHEDULE_START
       /\ Answer = "exit" => Post.state = START
       /\ Answer \notin FollowUpChoices \cup {"quit", "restart"}
            => Post.state = VIEW_RESULTS /\ last.reply.kind = "view_help"

\* C18: the view renders the appointments the gateway returned in ascending
\* order of date and time (a permutation of the returned list) and the state
\* becomes VIEW_RESULTS; an empty result sets the state to START.
Rendered == last.reply.args[1]

Ascending(list) ==
  \A i, j \in 1..Len(list) :
    i < j => get_datetime(appts[list[i]]) <= get_datetime(appts[list[j]])

Permutation(list, of) ==
  /\ Len(list) = Len(of)
  /\ Members(list) = Members(of)
  /\ \A i, j \in 1..Len(list) : i # j => list[i] # list[j]

C18_ViewOrder ==
  (Acted /\ last.handler = "handle_view_appointments")
    => IF Found = <<>>
       THEN Post.state = START /\ last.reply.kind = "view_none"
       ELSE /\ Post.state = VIEW_RESULTS
            /\ last.reply.kind = "view_list"
            /\ Permutation(Rendered, Found)
            /\ Ascending(Rendered)

\* the three appointments of Alice come back in the order 1, 2, 3 and are
\* rendered in the order 1, 3, 2
C18_Witness ==
  /\ Acted /\ last.handler = "handle_view_appointments"
  /\ Found = <<1, 2, 3>>
  /\ Rendered = <<1, 3, 2>>
  /\ Post.state = VIEW_RESULTS

\* C19: the classifier returns the first category, in the order cancel,
\* reschedule, view, book, one of whose keywords occurs in the lower-cased
\* trimmed input, and unknown when none occurs; an input with a cancel and
\* a reschedule keyword is cancel, one with change and appointment (and no
\* cancel keyword) is reschedule.
IntentOrder == <<"cancel", "reschedule", "view", "book">>

KeywordsOf(category) ==
  CASE category = "cancel" -> cancel_keywords
    [] category = "reschedule" -> reschedule_keywords
    [] category = "view" -> view_keywords
    [] category = "book" -> book_keywords

Occurs(category, text) ==
  \E k \in KeywordsOf(category) : Contains(Lower(Strip(text)), k)

FirstIntent(text) ==
  LET hits == {i \in 1..Len(IntentOrder) : Occurs(IntentOrder[i], text)}
  IN  IF hits = {} THEN "unknown"
      ELSE IntentOrder[CHOOSE i \in hits : \A j \in hits : i <= j]

C19_IntentPriority ==
  last.handler = "detect_intent"
    => /\ last.reply.kind = FirstIntent(last.input)
       /\ (Occurs("cancel", last.input) /\ Occurs("reschedule", last.input))
            => last.reply.kind = "cancel"
       /\ (/\ Contains(Lower(last.input), "change")
           /\ Contains(Lower(last.input), "appointment")
           /\ ~Occurs("cancel", last.input))
            => last.reply.kind = "reschedule"

C19_Witness ==
  /\ last.handler = "detect_intent"
  /\ last.input = "reschedule cancel"
  /\ last.reply.kind = "cancel"

\* C20: a well-formed date is accepted exactly when it lies between today
\* and today + 90 days, both included; a text that does not parse, a past
\* date and a date too far ahead are rejected with three different reasons.
DaysAhead(text) == DateOrdinal(Strip(text)) - TodayOrdinal

HourOf(text) == DecimalValue(TimeParts(Strip(text))[1])

MinuteOf(text) == DecimalValue(TimeParts(Strip(text))[2])

C21_TimeWindow ==
  last.handler = "is_valid_time"
    => LET ok == last.reply.args[1]
       IN  /\ TimeParses(Strip(last.input))
                => (ok <=> (HourOf(last.input) \in 8..19
                            /\ MinuteOf(last.input) \in {0, 30}))
           /\ ~TimeParses(Strip(last.input)) => ~ok
           /\ last.input \in {"07:30", "20:00", "14:15", "19:31", "00:00", "23:30"} => ~ok
           /\ last.input \in {"08:00", "19:30", "08:30", "14:00", "19:00"} => ok

\* the last slot of the day is accepted
C21_Witness ==
  /\ last.handler = "is_valid_time"
  /\ last.input = "19:30"
  /\ last.reply.args[1]
  /\ HourOf(last.input) = 19 /\ MinuteOf(last.input) = 30

\* C22: a phone number is accepted exactly when, trimmed, it has 7 to 20
\* characters and each is a digit, a space, +, -, ( or ); a trimmed length
\* of 6 or 21, or any other character, is rejected.
SpecPhoneChars == Digits \cup {" ", "+", "-", "(", ")"}

C22_PhoneFormat ==
  last.handler = "is_valid_phone"
    => LET t == Strip(last.input)
       IN  last.reply.args[1]
             <=> /\ Len(t) \in 7..20
                 /\ \A i \in 1..Len(t) : Char(t, i) \in SpecPhoneChars

\* C23: the sweep runs on exactly every tenth call of get_response, counted
\* from the first call of the run, whatever the number of sessions held.
C23_SweepCadence ==
  Acted => (last.sweep_ran <=> last.nth % SweepModulus = 0)

\* C24: a session is evicted only when its user has had no turn for longer
\* than the TTL of one hour; a user whose previous turn was at most one hour
\* ago keeps the session, its state and its draft.
C24_IdleEviction ==
  Acted =>
    \A u \in last.evicted \cap Users :
      last.seen_before[u] # <<>> =>
        last.at - last.seen_before[u][1] > max_age_hours

\* C25: while calls keep arriving, a session whose age exceeds the TTL does
\* not stay in the store forever: it is eventually removed.
HeldExpired(u) == HasSession(sessions, u) /\ Expired(sessions[u], now)

C25_EvictionLiveness ==
  \A u \in Users : HeldExpired(u) ~> ~HeldExpired(u)

SweepStep == now' = now /\ last'.sweep_ran

Age(session, clock) == clock - session.created_at

C27_SweepExact ==
  [][SweepStep =>
       /\ last'.evicted = {u \in DOMAIN sessions :
                             Age(sessions[u], now) > max_age_hours}
       /\ \A u \in DOMAIN sessions' :
            Age(sessions'[u], now) <= max_age_hours
       /\ \A u \in DOMAIN sessions \ last'.evicted :
            /\ u \in DOMAIN sessions'
            /\ u # last'.user => sessions'[u] = sessions[u]
            /\ u = last'.user => last'.pre = sessions[u]]_vars

C27_Witness ==
  /\ last.sweep_ran
  /\ last.evicted # {}
  /\ last.held_before \ last.evicted # {}
  /\ \E u \in last.held_before \ last.evicted :
       u # last.user /\ Age(sessions[u], last.at) = max_age_hours

\* C28: on a turn whose trimmed, lower-cased input is cancel, exit, quit or
\* restart, no state handler runs whatever the state: no gateway operation
\* is called and the input is stored nowhere in the draft.
GlobalCommands == GlobalAbortCommands \cup {GlobalRestartCommand}

C28_GlobalPrecedence ==
  (Acted /\ Answer \in GlobalCommands)
    => /\ last.handler \in {"global_abort", "global_restart"}
       /\ last.calls = <<>>
       /\ last.reply.kind \in {"conversation_cancelled", "greeting"}
       /\ Answer \in GlobalAbortCommands => Post.data = last.pre.data
       /\ Answer = GlobalRestartCommand => DraftCleared(Post)

C28_Witness ==
  /\ Acted /\ Answer = "cancel"
  /\ last.pre.state = DOCTOR_SELECTION
  /\ last.handler = "global_abort"
  /\ last.calls = <<>>

\* C29: in state START an input that is not a global command leads to the
\* state its intent fixes (book: GREETING, cancel: CANCEL_START, reschedule:
\* RESCHEDULE_START, view: VIEW_START, unknown: INTENT_DETECTION), with no
\* gateway call and no draft field written.
StartTarget(intent) ==
  CASE intent = "book" -> GREETING
    [] intent = "cancel" -> CANCEL_START
    [] intent = "reschedule" -> RESCHEDULE_START
    [] intent = "view" -> VIEW_START
    [] OTHER -> INTENT_DETECTION

C29_WitnessUnknown ==
  /\ Acted /\ last.pre.state = START
  /\ last.input = "hello"
  /\ Post.state = INTENT_DETECTION

\* C30: on the turn after the service menu was shown (state
\* SERVICE_SELECTION), an input that is a 1-based index into the service
\* list or a substring of a service name stores the first matching service
\* and moves to DATE_SELECTION; an input matching no service re-prompts,
\* stores nothing and leaves the state as it was.
C30_ServiceSelection ==
  (Acted /\ last.pre.state = SERVICE_SELECTION /\ Answer \notin GlobalCommands)
    => \E expected \in {handle_service_selection(last.pre, Strip(last.input))} :
         /\ Post = expected.sess
         /\ last.reply = expected.reply
         /\ last.input \in {"2", "cleaning"} =>
              Post.state = DATE_SELECTION /\ Post.data.service_type # None

\* C31: on the turn after the doctor prompt was shown (state
\* DOCTOR_SELECTION), "any" stores an unspecified doctor and moves to
\* CONFIRMATION; another input is looked up through the gateway, a doctor
\* found is stored and the state moves to CONFIRMATION, and a name not found
\* re-prompts and leaves state and draft as they were.
C31_DoctorSelection ==
  (Acted /\ last.pre.state = DOCTOR_SELECTION /\ Answer \notin GlobalCommands)
    => \E expected \in {handle_doctor_selection(last.pre, Strip(last.input))} :
         /\ Post = expected.sess
         /\ last.reply = expected.reply
         /\ last.calls = expected.calls
         /\ Answer = "any" =>
              Post.state = CONFIRMATION /\ Post.data.doctor_name = "Any"

\* C32: in state INTENT_DETECTION the inputs 1, 2, 3 and 4 lead to GREETING,
\* CANCEL_START, RESCHEDULE_START and VIEW_START; every other input that is
\* not a global command leaves the state INTENT_DETECTION and re-prompts.
AtMenu ==
  Acted /\ last.pre.state = INTENT_DETECTION /\ Answer \notin GlobalCommands

C32_IntentMenu ==
  AtMenu =>
    /\ Answer = "1" => Post.state = GREETING
    /\ Answer = "2" => Post.state = CANCEL_START
    /\ Answer = "3" => Post.state = RESCHEDULE_START
    /\ Answer = "4" => Post.state = VIEW_START
    /\ Answer \notin {"1", "2", "3", "4"} =>
         Post.state = INTENT_DETECTION /\ last.reply.kind = "intent_menu_error"

\* C32 as the code has it: each option is its number or one of its words
\* (the word cancel is a global command and never reaches the menu).
BookOptions == {"1", "book", "booking", "schedule", "appointment"}
CancelOptions == {"2", "cancellation"}
RescheduleOptions == {"3", "reschedule", "change"}
ViewOptions == {"4", "view", "see", "show"}

C32_IntentMenuWords ==
  AtMenu =>
    /\ Answer \in BookOptions => Post.state = GREETING
    /\ Answer \in CancelOptions => Post.state = CANCEL_START
    /\ Answer \in RescheduleOptions => Post.state = RESCHEDULE_START
    /\ Answer \in ViewOptions => Post.state = VIEW_START
    /\ Answer \notin BookOptions \cup CancelOptions \cup RescheduleOptions
                                 \cup ViewOptions =>
         /\ Post.state = INTENT_DETECTION
         /\ last.reply.kind = "intent_menu_error"
    /\ Post.data = last.pre.data
    /\ last.calls = <<>>

C32_Witness ==
  /\ AtMenu /\ Answer = "change"
  /\ Post.state = RESCHEDULE_START

C32_WitnessReprompt ==
  /\ AtMenu /\ Answer = "hello"
  /\ Post.state = INTENT_DETECTION

\* C33: a turn of one user leaves the session of every other user as it
\* was, unless the sweep removes it, and then its age exceeds the TTL; and
\* what the turn does to the caller's own session, its reply and its
\* gateway calls are what the same turn does when the store holds the
\* caller's session alone (the gateway's records being the same).
Alone(store, user) == [u \in DOMAIN store \cap {user} |-> store[u]]

OthersKept ==
  \A u \in DOMAIN sessions \ {last'.user} :
    \/ u \in DOMAIN sessions' /\ sessions'[u] = sessions[u]
    \/ /\ u \notin DOMAIN sessions'
       /\ last'.sweep_ran
       /\ Age(sessions[u], now) > max_age_hours

SameAlone ==
  \E gateway_ok \in BOOLEAN :
    \E r \in {get_response(Alone(sessions, last'.user), appts, now,
                           last'.input, last'.user, gateway_ok)} :
      /\ r.sessions[last'.user] = sessions'[last'.user]
      /\ r.reply = last'.reply
      /\ r.calls = last'.calls

FailedMutations == {i \in Mutations(last.calls) : ~last.calls[i].result}

C34_NoRetry ==
  Acted =>
    /\ Len(last.calls) <= 1
    /\ FailedMutations # {} =>
         last.reply.kind \in {"booking_failed", "cancel_failed", "reschedule_failed"}

C34_Witness ==
  /\ Acted /\ Len(last.calls) = 1
  /\ last.calls[1].op = "reschedule" /\ ~last.calls[1].result
  /\ last.reply.kind = "reschedule_failed"
  /\ Post.state = RESCHEDULE_CONFIRMATION

\* C35: rescheduleAppointment is called only on an affirmative answer in
\* RESCHEDULE_CONFIRMATION, with the appointment selected from the flow's
\* candidate list and the new date and new time that the flow's own date
\* and time turns validated and stored; the flow's states change only along
\* RESCHEDULE_START, RESCHEDULE_APPOINTMENT_SELECTION,
\* RESCHEDULE_DATE_SELECTION, RESCHEDULE_TIME_SELECTION,
\* RESCHEDULE_CONFIRMATION, START.
RescheduleStates ==
  {RESCHEDULE_START, RESCHEDULE_APPOINTMENT_SELECTION, RESCHEDULE_DATE_SELECTION,
   RESCHEDULE_TIME_SELECTION, RESCHEDULE_CONFIRMATION}

ReschedulePath(state) ==
  CASE state = RESCHEDULE_START -> RESCHEDULE_APPOINTMENT_SELECTION
    [] state = RESCHEDULE_APPOINTMENT_SELECTION -> RESCHEDULE_DATE_SELECTION
    [] state = RESCHEDULE_DATE_SELECTION -> RESCHEDULE_TIME_SELECTION
    [] state = RESCHEDULE_TIME_SELECTION -> RESCHEDULE_CONFIRMATION
    [] state = RESCHEDULE_CONFIRMATION -> START

Entered(state) == Post.state = state /\ last.pre.state # state

RescheduleCall ==
  /\ last.pre.state = RESCHEDULE_CONFIRMATION
  /\ Answer \in AffirmativeAnswers
  /\ last.calls = <<Call("reschedule",
                         <<last.pre.data.selected_appointment,
                           last.pre.data.new_date, last.pre.data.new_time>>,
                         last.calls[1].result)>>
  /\ last.pre.data.selected_appointment
       \in Members(last.pre.data.available_appointments)
  /\ is_valid_date(last.pre.data.new_date)[1]
  /\ is_valid_time(last.pre.data.new_time)[1]

RescheduleSteps ==
  /\ Entered(RESCHEDULE_APPOINTMENT_SELECTION) =>
       /\ last.pre.state = RESCHEDULE_START
       /\ Post.data.available_appointments
            = FilterMutable(appts, get_patient_appointments(appts, Strip(last.input)))
  /\ Entered(RESCHEDULE_DATE_SELECTION) =>
       /\ last.pre.state = RESCHEDULE_APPOINTMENT_SELECTION
       /\ Post.data.available_appointments = last.pre.data.available_appointments
       /\ Post.data.selected_appointment
            = last.pre.data.available_appointments[IntValue(Strip(last.input))]
  /\ Entered(RESCHEDULE_TIME_SELECTION) =>
       /\ last.pre.state = RESCHEDULE_DATE_SELECTION
       /\ is_valid_date(last.input)[1]
       /\ Post.data = [last.pre.data EXCEPT !.new_date = Strip(last.input)]
  /\ Entered(RESCHEDULE_CONFIRMATION) =>
       /\ last.pre.state = RESCHEDULE_TIME_SELECTION
       /\ is_valid_time(last.input)[1]
       /\ Post.data = [last.pre.data EXCEPT !.new_time = Strip(last.input)]

C35_RescheduleCommit ==
  Acted =>
    /\ CallsOf("reschedule") # {} => RescheduleCall
    /\ RescheduleSteps
    /\ (last.pre.state \in RescheduleStates /\ Answer \notin GlobalCommands) =>
         /\ Post.state \in {last.pre.state, ReschedulePath(last.pre.state)}
         /\ Post.state = last.pre.state => Post.data = last.pre.data

C35_Witness ==
  /\ Acted /\ CallsOf("reschedule") # {}
  /\ last.calls[1].result
  /\ last.pre.state = RESCHEDULE_CONFIRMATION
  /\ Post.state = START
  /\ last.calls[1].args = <<3, "2025-06-20", "14:00">>

\* C36: cancelAppointment is called only in CANCEL_CONFIRMATION, with the
\* appointment at the 1-based index typed in the candidate list that the
\* session's latest search stored; a successful cancel returns the session
\* to START, so one pass through the flow cancels at most once.
CancelCall ==
  /\ last.pre.state = CANCEL_CONFIRMATION
  /\ IntParses(Strip(last.input))
  /\ IntValue(Strip(last.input)) \in 1..Len(last.pre.data.available_appointments)
  /\ last.calls = <<Call("cancel",
                         <<last.pre.data.available_appointments[
                             IntValue(Strip(last.input))],
                           "Cancelled via chatbot">>,
                         last.calls[1].result)>>
  /\ last.calls[1].result => Post.state = START
  /\ ~last.calls[1].result => Post.state = CANCEL_CONFIRMATION

C36_CancelCommit ==
  Acted =>
    /\ CallsOf("cancel") # {} => CancelCall
    /\ Entered(CANCEL_CONFIRMATION) =>
         /\ last.pre.state = CANCEL_START
         /\ last.calls = <<Call("get_patient_appointments",
                                <<Strip(last.input)>>, TRUE)>>
         /\ Post.data.available_appointments
              = FilterMutable(appts, get_patient_appointments(appts, Strip(last.input)))
    /\ (last.pre.state = CANCEL_CONFIRMATION /\ Post.state = CANCEL_CONFIRMATION) =>
         Post.data = last.pre.data

C36_Witness ==
  /\ Acted /\ last.pre.state = CANCEL_CONFIRMATION
  /\ last.input = "2"
  /\ last.calls = <<Call("cancel", <<3, "Cancelled via chatbot">>, TRUE)>>
  /\ Post.state = START
  /\ appts[3].status = CANCELLED

\* C37: a session in CANCEL_CONFIRMATION or RESCHEDULE_APPOINTMENT_SELECTION
\* holds a non-empty candidate list; a session in RESCHEDULE_DATE_SELECTION,
\* RESCHEDULE_TIME_SELECTION or RESCHEDULE_CONFIRMATION holds a selected
\* appointment that is a member of its candidate list.
SelectionInvariant(session) ==
  /\ session.state \in {CANCEL_CONFIRMATION, RESCHEDULE_APPOINTMENT_SELECTION} =>
       Len(session.data.available_appointments) >= 1
  /\ session.state \in {RESCHEDULE_DATE_SELECTION, RESCHEDULE_TIME_SELECTION,
                        RESCHEDULE_CONFIRMATION} =>
       /\ session.data.selected_appointment # NoAppointment
       /\ session.data.selected_appointment
            \in Members(session.data.available_appointments)

C37_SelectionInvariant ==
  \A u \in DOMAIN sessions : SelectionInvariant(sessions[u])

C37_Witness ==
  /\ HasSession(sessions, "Alice")
  /\ sessions["Alice"].state = RESCHEDULE_TIME_SELECTION
  /\ sessions["Alice"].data.available_appointments = <<2>>
  /\ sessions["Alice"].data.selected_appointment = 2

\* C38: a global cancel, exit or quit, and a negative answer to a
\* confirmation, change the state of the user's session to START and
\* nothing else: the draft and created_at keep their values.
NegativeAnswer ==
  \/ last.handler = "handle_confirmation" /\ Answer \in BookingNegativeAnswers
  \/ /\ last.handler = "handle_reschedule_confirmation"
     /\ Answer \in RescheduleNegativeAnswers

C38_AbortFrame ==
  (Acted /\ (Answer \in GlobalAbortCommands \/ NegativeAnswer))
    => /\ Post = [last.pre EXCEPT !.state = START]
       /\ last.calls = <<>>

C38_Witness ==
  /\ Acted /\ last.handler = "handle_reschedule_confirmation"
  /\ Answer = "no"
  /\ last.pre.data.new_time = "14:00"
  /\ last.pre.data.phone # None
  /\ Post.state = START
  /\ Post.data = last.pre.data
  /\ Post.created_at = last.pre.created_at

C38_WitnessGlobal ==
  /\ Acted /\ Answer = "quit"
  /\ last.pre.state = TIME_SELECTION
  /\ last.pre.data.date # None
  /\ Post = [last.pre EXCEPT !.state = START]

\* C39: with the turns of two sessions interleaved, cancelAppointment and
\* rescheduleAppointment are called only for an appointment whose status is
\* Scheduled or Confirmed at the moment of the call.
C39_NoStaleMutation ==
  [][\A i \in 1..Len(last'.calls) :
       last'.calls[i].op \in {"cancel", "reschedule"} =>
         Cancellable(appts[last'.calls[i].args[1]])]_vars

====
